---- MODULE Spec2Model ----
(***************************************************************************)
(* VoltDrive RAG: the query pipeline (expand, embed, search, re-rank,      *)
(* assemble), the streaming query endpoint and the ingestion script.      *)
(* Texts are strings; a character is a string of length 1.                 *)
(***************************************************************************)
EXTENDS Integers, Sequences, FiniteSets, TLC

(***************************************************************************)
(* String primitives (JavaScript String methods used by the sources).     *)
(***************************************************************************)
\* s.charAt(i - 1): the empty string outside the string.
CharAt(s, i) == IF i >= 1 /\ i <= Len(s) THEN SubSeq(s, i, i) ELSE ""

\* /\s/ and String.prototype.trim: the ECMAScript WhiteSpace and LineTerminator
\* characters.  Space, LF, TAB, CR, FF, VT (U+000B), NBSP (U+00A0), U+1680
\* and U+FEFF are written here; the remaining ones (U+2000..U+200A, U+2028,
\* U+2029, U+202F, U+205F, U+3000) cannot be written in a string of this
\* language and so occur in no text of the model.
IsSpace(c) == c \in {" ", "\n", "\t", "\r", "\f", "", " ", " ", "﻿"}

LowerOf ==
  [A |-> "a", B |-> "b", C |-> "c", D |-> "d", E |-> "e", F |-> "f", G |-> "g",
   H |-> "h", I |-> "i", J |-> "j", K |-> "k", L |-> "l", M |-> "m", N |-> "n",
   O |-> "o", P |-> "p", Q |-> "q", R |-> "r", S |-> "s", T |-> "t", U |-> "u",
   V |-> "v", W |-> "w", X |-> "x", Y |-> "y", Z |-> "z"]

\* toLowerCase and toUpperCase on the letters A to Z and a to z, the only cased
\* letters in the texts of the model.
LowerChar(c) == IF c \in DOMAIN LowerOf THEN LowerOf[c] ELSE c

UpperOf ==
  [a |-> "A", b |-> "B", c |-> "C", d |-> "D", e |-> "E", f |-> "F", g |-> "G",
   h |-> "H", i |-> "I", j |-> "J", k |-> "K", l |-> "L", m |-> "M", n |-> "N",
   o |-> "O", p |-> "P", q |-> "Q", r |-> "R", s |-> "S", t |-> "T", u |-> "U",
   v |-> "V", w |-> "W", x |-> "X", y |-> "Y", z |-> "Z"]

UpperChar(c) == IF c \in DOMAIN UpperOf THEN UpperOf[c] ELSE c

IsUpper(c) == c \in DOMAIN LowerOf

IsLower(c) == c \in DOMAIN UpperOf

IsDigit(c) == c \in {"0", "1", "2", "3", "4", "5", "6", "7", "8", "9"}

RECURSIVE ToUpperCase(_)
ToUpperCase(s) ==
  IF Len(s) = 0 THEN ""
  ELSE IF Len(s) = 1 THEN UpperChar(s)
  ELSE LET h == Len(s) \div 2
       IN ToUpperCase(SubSeq(s, 1, h)) \o ToUpperCase(SubSeq(s, h + 1, Len(s)))

RECURSIVE ToLowerCase(_)
ToLowerCase(s) ==
  IF Len(s) = 0 THEN ""
  ELSE IF Len(s) = 1 THEN LowerChar(s)
  ELSE LET h == Len(s) \div 2
       IN ToLowerCase(SubSeq(s, 1, h)) \o ToLowerCase(SubSeq(s, h + 1, Len(s)))

Includes(s, w) == \E i \in 0..(Len(s) - Len(w)) : SubSeq(s, i + 1, i + Len(w)) = w

StartsWith(s, w) == Len(w) <= Len(s) /\ SubSeq(s, 1, Len(w)) = w

EndsWith(s, w) == Len(w) <= Len(s) /\ SubSeq(s, Len(s) - Len(w) + 1, Len(s)) = w

SentenceEnders == {".", "!", "?"}

\* Whether position i of s is a place of the given kind; a kind of one
\* character stands for "the character at i is that character".
MatchesAt(kind, s, i) ==
  CASE kind = "nonSpace"  -> ~IsSpace(CharAt(s, i))
    [] kind = "wordStart" -> /\ ~IsSpace(CharAt(s, i))
                             /\ (i = 1 \/ IsSpace(CharAt(s, i - 1)))
    [] kind = "wordEnd"   -> /\ ~IsSpace(CharAt(s, i))
                             /\ (i = Len(s) \/ IsSpace(CharAt(s, i + 1)))
    \* the blank of a ". "
    [] kind = "blankAfterDot" -> CharAt(s, i) = " " /\ i > 1 /\ CharAt(s, i - 1) = "."
    \* the first and the last character of a match of /(?<=[.!?])\s+/
    [] kind = "breakStart" -> /\ IsSpace(CharAt(s, i))
                              /\ i > 1
                              /\ CharAt(s, i - 1) \in SentenceEnders
    [] kind = "breakEnd"   -> /\ IsSpace(CharAt(s, i))
                              /\ (i = Len(s) \/ ~IsSpace(CharAt(s, i + 1)))
                              /\ \E a \in 2..i :
                                   /\ CharAt(s, a - 1) \in SentenceEnders
                                   /\ \A k \in a..i : IsSpace(CharAt(s, k))
    \* a LineTerminator of a regular expression
    [] kind = "lineTerminator" -> CharAt(s, i) \in {"\n", "\r"}
    [] OTHER -> CharAt(s, i) = kind

\* The positions lo..hi of s that are places of the given kind, ascending.
RECURSIVE Positions(_, _, _, _)
Positions(kind, s, lo, hi) ==
  IF lo > hi THEN <<>>
  ELSE IF lo = hi THEN (IF MatchesAt(kind, s, lo) THEN <<lo>> ELSE <<>>)
  ELSE LET mid == (lo + hi) \div 2
       IN Positions(kind, s, lo, mid) \o Positions(kind, s, mid + 1, hi)

\* The pieces of s left when the separators starts[k]..ends[k] are cut out.
SplitAt(s, starts, ends) ==
  LET n == Len(starts)
      from(k) == IF k = 1 THEN 1 ELSE ends[k - 1] + 1
      to(k)   == IF k = n + 1 THEN Len(s) ELSE starts[k] - 1
  IN [k \in 1..(n + 1) |-> SubSeq(s, from(k), to(k))]

\* String.prototype.trim
Trim(s) ==
  LET keep == Positions("nonSpace", s, 1, Len(s))
  IN IF Len(keep) = 0 THEN "" ELSE SubSeq(s, keep[1], keep[Len(keep)])

\* s.split(/\s+/): the pieces between maximal whitespace runs, with an empty
\* first (last) piece when s starts (ends) with whitespace, and [""] for "".
SplitWhitespace(s) ==
  LET starts == Positions("wordStart", s, 1, Len(s))
      ends   == Positions("wordEnd", s, 1, Len(s))
      toks   == [k \in 1..Len(starts) |-> SubSeq(s, starts[k], ends[k])]
      lead   == IF Len(s) = 0 \/ IsSpace(CharAt(s, 1)) THEN <<"">> ELSE <<>>
      trail  == IF Len(s) > 0 /\ IsSpace(CharAt(s, Len(s))) THEN <<"">> ELSE <<>>
  IN lead \o toks \o trail

\* s.split(c) for a one-character separator c.
SplitChar(s, c) ==
  LET seps == Positions(c, s, 1, Len(s))
  IN SplitAt(s, seps, seps)

\* parts.join(sep)
RECURSIVE Join(_, _)
Join(parts, sep) ==
  IF Len(parts) = 0 THEN ""
  ELSE IF Len(parts) = 1 THEN parts[1]
  ELSE LET h == Len(parts) \div 2
       IN Join(SubSeq(parts, 1, h), sep) \o sep
            \o Join(SubSeq(parts, h + 1, Len(parts)), sep)

Digits == "0123456789"

\* The decimal text of a natural number (template literal `${n}`).
RECURSIVE NumToString(_)
NumToString(n) ==
  IF n < 10 THEN CharAt(Digits, n + 1)
  ELSE NumToString(n \div 10) \o CharAt(Digits, (n % 10) + 1)

Min(a, b) == IF a <= b THEN a ELSE b

Abs(n) == IF n < 0 THEN -n ELSE n

(***************************************************************************)
(* JavaScript numbers are IEEE-754 binary64 values, and every operation    *)
(* rounds to the nearest one, ties to the even mantissa.  A natural number *)
(* of any size is a sequence of limbs, least significant first, without    *)
(* leading zero limbs; <<>> is zero.                                       *)
(***************************************************************************)
LimbBits == 14

LimbBase == 2 ^ LimbBits

RECURSIVE BigOf(_)
BigOf(n) == IF n = 0 THEN <<>> ELSE <<n % LimbBase>> \o BigOf(n \div LimbBase)

RECURSIVE BigNorm(_)
BigNorm(a) ==
  IF Len(a) > 0 /\ a[Len(a)] = 0 THEN BigNorm(SubSeq(a, 1, Len(a) - 1)) ELSE a

Limb(a, i) == IF i <= Len(a) THEN a[i] ELSE 0

RECURSIVE BigAddFrom(_, _, _, _)
BigAddFrom(a, b, i, carry) ==
  IF i > Len(a) /\ i > Len(b)
  THEN (IF carry = 0 THEN <<>> ELSE <<carry>>)
  ELSE <<(Limb(a, i) + Limb(b, i) + carry) % LimbBase>>
       \o BigAddFrom(a, b, i + 1, (Limb(a, i) + Limb(b, i) + carry) \div LimbBase)

BigAdd(a, b) == BigAddFrom(a, b, 1, 0)

\* a - b for a >= b
RECURSIVE BigSubFrom(_, _, _, _)
BigSubFrom(a, b, i, borrow) ==
  IF i > Len(a) THEN <<>>
  ELSE <<(a[i] - Limb(b, i) - borrow + LimbBase) % LimbBase>>
       \o BigSubFrom(a, b, i + 1, IF a[i] - Limb(b, i) - borrow < 0 THEN 1 ELSE 0)

BigSub(a, b) == BigNorm(BigSubFrom(a, b, 1, 0))

RECURSIVE BigCmpFrom(_, _, _)
BigCmpFrom(a, b, i) ==
  IF i = 0 THEN 0
  ELSE IF a[i] < b[i] THEN -1
  ELSE IF a[i] > b[i] THEN 1
  ELSE BigCmpFrom(a, b, i - 1)

\* -1, 0 or 1 as a is below, equal to or above b
BigCmp(a, b) ==
  IF Len(a) < Len(b) THEN -1
  ELSE IF Len(a) > Len(b) THEN 1
  ELSE BigCmpFrom(a, b, Len(a))

\* a * k for 0 <= k < 2^16
RECURSIVE BigMulSmallFrom(_, _, _, _)
BigMulSmallFrom(a, k, i, carry) ==
  IF i > Len(a) THEN BigOf(carry)
  ELSE <<(a[i] * k + carry) % LimbBase>>
       \o BigMulSmallFrom(a, k, i + 1, (a[i] * k + carry) \div LimbBase)

BigMulSmall(a, k) == IF k = 0 THEN <<>> ELSE BigMulSmallFrom(a, k, 1, 0)

\* a * LimbBase^n
BigShiftLimbs(a, n) == IF Len(a) = 0 THEN <<>> ELSE [i \in 1..n |-> 0] \o a

RECURSIVE BigMulFrom(_, _, _)
BigMulFrom(a, b, i) ==
  IF i > Len(b) THEN <<>>
  ELSE BigAdd(BigMulSmall(a, b[i]), BigShiftLimbs(BigMulFrom(a, b, i + 1), 1))

BigMul(a, b) == BigMulFrom(a, b, 1)

\* One step of the long division by d < 2^16: hi is the result for the higher
\* limbs.
BigDivStep(hi, limb, d) ==
  [q |-> <<(hi.r * LimbBase + limb) \div d>> \o hi.q,
   r |-> (hi.r * LimbBase + limb) % d]

RECURSIVE BigDivFrom(_, _, _)
BigDivFrom(a, d, i) ==
  IF i > Len(a) THEN [q |-> <<>>, r |-> 0]
  ELSE BigDivStep(BigDivFrom(a, d, i + 1), a[i], d)

NormQuotient(qr) == [q |-> BigNorm(qr.q), r |-> qr.r]

\* [q |-> a \div d, r |-> a % d] for 0 < d < 2^16
BigDivSmall(a, d) == NormQuotient(BigDivFrom(a, d, 1))

\* a * 2^k
BigShl(a, k) ==
  BigMulSmall(BigShiftLimbs(a, k \div LimbBits), 2 ^ (k % LimbBits))

AnyNonZero(a, n) == \E i \in 1..n : i <= Len(a) /\ a[i] # 0

AddSticky(qr, sticky) == [q |-> qr.q, sticky |-> sticky \/ qr.r # 0]

\* [q |-> a \div 2^k, sticky |-> a % 2^k # 0]
BigShr(a, k) ==
  AddSticky(BigDivSmall(SubSeq(a, k \div LimbBits + 1, Len(a)), 2 ^ (k % LimbBits)),
            AnyNonZero(a, k \div LimbBits))

RECURSIVE SmallBitLen(_)
SmallBitLen(n) == IF n = 0 THEN 0 ELSE 1 + SmallBitLen(n \div 2)

BitLen(a) == IF Len(a) = 0 THEN 0 ELSE LimbBits * (Len(a) - 1) + SmallBitLen(a[Len(a)])

RECURSIVE BigPow10(_)
BigPow10(k) == IF k = 0 THEN <<1>> ELSE BigMulSmall(BigPow10(k - 1), 10)

\* A double is (-1)^neg * mant * 2^exp with 2^52 <= mant < 2^53, or a zero
\* (mant = 0).  Scores and similarities lie between -2 and 2, far from the
\* overflow and the subnormal range, so exp is not bounded.
MantBits == 53

DoubleZero(neg) == [neg |-> neg, mant |-> <<>>, exp |-> 0]

MakeDouble(neg, mant, exp) ==
  IF BitLen(mant) > MantBits
  THEN [neg |-> neg, mant |-> BigDivSmall(mant, 2).q, exp |-> exp + 1]
  ELSE [neg |-> neg, mant |-> mant, exp |-> exp]

\* half is the quotient and the remainder of (mantissa with round bit) by 2:
\* round up when the round bit is set and either a lower bit is set or the
\* mantissa is odd.
RoundHalfEven(neg, half, exp, sticky) ==
  IF half.r = 1 /\ (sticky \/ Limb(half.q, 1) % 2 = 1)
  THEN MakeDouble(neg, BigAdd(half.q, <<1>>), exp)
  ELSE MakeDouble(neg, half.q, exp)

RoundShifted(neg, sh, exp, sticky) ==
  RoundHalfEven(neg, BigDivSmall(sh.q, 2), exp, sticky \/ sh.sticky)

\* The double nearest to (-1)^neg * (N + f) * 2^exp, where 0 <= f < 1 and f > 0
\* iff sticky (sticky only with N of more than 54 bits).
RoundToDouble(neg, N, exp, sticky) ==
  IF BitLen(N) = 0 THEN DoubleZero(neg)
  ELSE IF BitLen(N) <= MantBits
  THEN MakeDouble(neg, BigShl(N, MantBits - BitLen(N)), exp - (MantBits - BitLen(N)))
  ELSE RoundShifted(neg, BigShr(N, BitLen(N) - MantBits - 1),
                    exp + BitLen(N) - MantBits, sticky)

DivideRounded(neg, qr, exp) == RoundToDouble(neg, qr.q, exp, qr.r # 0)

\* The double nearest to n / d for integers n and 0 < d < 2^16: the value of
\* a decimal literal (0.7 is DoubleOf(7, 10)) and of an integer.
DoubleOf(n, d) ==
  IF n = 0 THEN DoubleZero(FALSE)
  ELSE DivideRounded(n < 0,
                     BigDivSmall(BigShl(BigOf(IF n < 0 THEN -n ELSE n), 72), d), -72)

\* x / n for an integer 0 < n < 2^16
DoubleDivInt(x, n) ==
  IF Len(x.mant) = 0 THEN x
  ELSE DivideRounded(x.neg, BigDivSmall(BigShl(x.mant, 72), n), x.exp - 72)

\* x * y
DoubleMul(x, y) ==
  IF Len(x.mant) = 0 \/ Len(y.mant) = 0 THEN DoubleZero(x.neg # y.neg)
  ELSE RoundToDouble(x.neg # y.neg, BigMul(x.mant, y.mant), x.exp + y.exp, FALSE)

\* The sum of two magnitudes X and Y (in units of 2^exp) with signs.
SignedSum(xneg, X, yneg, Y, exp) ==
  IF xneg = yneg THEN RoundToDouble(xneg, BigAdd(X, Y), exp, FALSE)
  ELSE IF BigCmp(X, Y) = 0 THEN DoubleZero(FALSE)
  ELSE IF BigCmp(X, Y) > 0 THEN RoundToDouble(xneg, BigSub(X, Y), exp, FALSE)
  ELSE RoundToDouble(yneg, BigSub(Y, X), exp, FALSE)

\* x + y
DoubleAdd(x, y) ==
  IF Len(x.mant) = 0 /\ Len(y.mant) = 0 THEN DoubleZero(x.neg /\ y.neg)
  ELSE IF Len(x.mant) = 0 THEN y
  ELSE IF Len(y.mant) = 0 THEN x
  ELSE SignedSum(x.neg, BigShl(x.mant, x.exp - Min(x.exp, y.exp)),
                 y.neg, BigShl(y.mant, y.exp - Min(x.exp, y.exp)),
                 Min(x.exp, y.exp))

\* |x| < |y|
MagnitudeLess(x, y) ==
  IF Len(y.mant) = 0 THEN FALSE
  ELSE IF Len(x.mant) = 0 THEN TRUE
  ELSE x.exp < y.exp \/ (x.exp = y.exp /\ BigCmp(x.mant, y.mant) < 0)

\* x < y
DoubleLess(x, y) ==
  IF Len(x.mant) = 0 /\ Len(y.mant) = 0 THEN FALSE
  ELSE IF x.neg /\ ~y.neg THEN TRUE
  ELSE IF ~x.neg /\ y.neg THEN FALSE
  ELSE IF x.neg THEN MagnitudeLess(y, x)
  ELSE MagnitudeLess(x, y)

\* x === y, and x - y being zero
DoubleEq(x, y) == ~DoubleLess(x, y) /\ ~DoubleLess(y, x)

\* Math.min(x, y)
DoubleMin(x, y) ==
  IF Len(x.mant) = 0 /\ Len(y.mant) = 0 THEN DoubleZero(x.neg \/ y.neg)
  ELSE IF DoubleLess(y, x) THEN y ELSE x

Max(a, b) == IF a < b THEN b ELSE a

\* |x| compared with 10^j: -1, 0 or 1
CmpPow10(x, j) ==
  BigCmp(BigShl(BigMul(x.mant, BigPow10(Max(-j, 0))), Max(x.exp, 0)),
         BigShl(BigPow10(Max(j, 0)), Max(-x.exp, 0)))

\* The n with 10^(n-1) <= |x| < 10^n, searched from a first guess.
RECURSIVE DecimalExponent(_, _)
DecimalExponent(x, n) ==
  IF CmpPow10(x, n) >= 0 THEN DecimalExponent(x, n + 1)
  ELSE IF CmpPow10(x, n - 1) < 0 THEN DecimalExponent(x, n - 1)
  ELSE n

RECURSIVE BigDivPow10(_, _)
BigDivPow10(a, k) == IF k = 0 THEN a ELSE BigDivPow10(BigDivSmall(a, 10).q, k - 1)

\* With |x|, half the gap between neighbouring doubles at x and the decimal
\* s * 10^e10 all multiplied by the same factor to make them integers:
\* half the gap,
HalfUlpScaled(x, e10) == BigShl(BigPow10(Max(-e10, 0)), Max(x.exp - 1, 0))

\* |x|,
ValueScaled(x, e10) == BigMulSmall(BigMul(x.mant, HalfUlpScaled(x, e10)), 2)

\* the decimal,
DecimalScaled(x, s, e10) == BigShl(BigMul(s, BigPow10(Max(e10, 0))), Max(1 - x.exp, 0))

\* and the largest s with s * 10^e10 <= |x|.
DecimalFloor(x, e10) ==
  BigDivPow10(BigShr(ValueScaled(x, e10), Max(1 - x.exp, 0)).q, Max(e10, 0))

BigDist(a, b) == IF BigCmp(a, b) >= 0 THEN BigSub(a, b) ELSE BigSub(b, a)

\* Whether a decimal at scaled value C is read back as the double x (scaled
\* value X, half gap H): it lies within half a gap of x, the boundary
\* included when the mantissa of x is even; below a power of two the gap is
\* half as wide.
ReadsBackAs(x, C, X, H) ==
  IF BigCmp(C, X) < 0 /\ BitLen(x.mant) = MantBits /\ BigCmp(x.mant, BigShl(<<1>>, MantBits - 1)) = 0
  THEN BigCmp(BigMulSmall(BigDist(C, X), 2), H) <= 0
  ELSE \/ BigCmp(BigDist(C, X), H) < 0
       \/ BigCmp(BigDist(C, X), H) = 0 /\ Limb(x.mant, 1) % 2 = 0

\* The digits s of the decimal s * 10^e10 nearest to |x| among lo and lo + 1
\* that are read back as x, or <<>> (zero) when neither is.
PickDecimal(x, e10, lo, hi, X, H) ==
  LET okLo == Len(lo) > 0 /\ ReadsBackAs(x, DecimalScaled(x, lo, e10), X, H)
      okHi == ReadsBackAs(x, DecimalScaled(x, hi, e10), X, H)
      dLo  == BigDist(DecimalScaled(x, lo, e10), X)
      dHi  == BigDist(DecimalScaled(x, hi, e10), X)
  IN IF okLo /\ okHi
     THEN (IF BigCmp(dLo, dHi) < 0 THEN lo
           ELSE IF BigCmp(dLo, dHi) > 0 THEN hi
           ELSE IF Limb(lo, 1) % 2 = 0 THEN lo ELSE hi)
     ELSE IF okLo THEN lo
     ELSE IF okHi THEN hi
     ELSE <<>>

DecimalWith(x, e10, lo) ==
  PickDecimal(x, e10, lo, BigAdd(lo, <<1>>), ValueScaled(x, e10), HalfUlpScaled(x, e10))

\* The shortest decimal read back as x: [s |-> digits as a number, e10 |->
\* the power of ten], trying p = 1, 2, ... significant digits (17 always do).
RECURSIVE ShortestFrom(_, _, _)
ShortestStep(x, n, p, s) ==
  IF Len(s) > 0 THEN [s |-> s, e10 |-> n - p] ELSE ShortestFrom(x, n, p + 1)

ShortestFrom(x, n, p) == ShortestStep(x, n, p, DecimalWith(x, n - p, DecimalFloor(x, n - p)))

RECURSIVE BigDigits(_)
BigDigitsStep(qr) == BigDigits(qr.q) \o CharAt(Digits, qr.r + 1)

BigDigits(a) == IF Len(a) = 0 THEN "" ELSE BigDigitsStep(BigDivSmall(a, 10))

RECURSIVE StripZeros(_)
StripZeros(ds) ==
  IF Len(ds) > 1 /\ SubSeq(ds, Len(ds), Len(ds)) = "0"
  THEN StripZeros(SubSeq(ds, 1, Len(ds) - 1)) ELSE ds

RECURSIVE Zeros(_)
Zeros(k) == IF k <= 0 THEN "" ELSE "0" \o Zeros(k - 1)

\* Number::toString steps 6-10 for the digits ds (k of them) and the n with
\* value = 0.ds * 10^n.
FormatDecimal(ds, n) ==
  LET k == Len(ds)
  IN IF k <= n /\ n <= 21 THEN ds \o Zeros(n - k)
     ELSE IF 0 < n /\ n <= 21 THEN SubSeq(ds, 1, n) \o "." \o SubSeq(ds, n + 1, k)
     ELSE IF -6 < n /\ n <= 0 THEN "0." \o Zeros(-n) \o ds
     ELSE (IF k = 1 THEN ds ELSE SubSeq(ds, 1, 1) \o "." \o SubSeq(ds, 2, k))
          \o "e" \o (IF n - 1 < 0 THEN "-" \o NumToString(1 - n) ELSE "+" \o NumToString(n - 1))

FormatShortest(all, e10) == FormatDecimal(StripZeros(all), e10 + Len(all))

FormatPicked(d) == FormatShortest(BigDigits(d.s), d.e10)

\* Number::toString(x): the shortest decimal that is read back as x.
DoubleToString(x) ==
  IF Len(x.mant) = 0 THEN "0"
  ELSE (IF x.neg THEN "-" ELSE "") \o FormatPicked(ShortestFrom(x, DecimalExponent(x, 1), 1))

FirstN(seq, n) == SubSeq(seq, 1, Min(n, Len(seq)))

LastN(seq, n) == SubSeq(seq, Len(seq) - Min(n, Len(seq)) + 1, Len(seq))

\* [...new Set(seq)]: the first occurrence of every element, in order.
IsFirstOccurrence(seq, i) == \A j \in 1..(i - 1) : seq[j] # seq[i]

RECURSIVE Dedup(_)
Dedup(seq) ==
  IF Len(seq) = 0 THEN <<>>
  ELSE Dedup(SubSeq(seq, 1, Len(seq) - 1)) \o
       (IF IsFirstOccurrence(seq, Len(seq)) THEN <<seq[Len(seq)]>> ELSE <<>>)

(***************************************************************************)
(* lib/rag.ts: query expansion.                                            *)
(***************************************************************************)
QUERY_EXPANSIONS ==
  << <<"warranty", "warranty coverage guarantee protection insurance policy claim repair">>,
     <<"guarantee", "warranty guarantee coverage protection assurance">>,
     <<"start", "start ignition power on boot activate turn startup launch">>,
     <<"won't start", "not starting no power dead battery ignition failure">>,
     <<"power", "power energy electrical battery charge current">>,
     <<"charge", "charging battery power electric recharge plug cable station">>,
     <<"charging", "charging charge recharge battery power plug station">>,
     <<"battery", "battery charge power energy capacity cell pack">>,
     <<"range", "range distance mileage efficiency driving capacity">>,
     <<"distance", "range distance mileage travel driving">>,
     <<"efficiency", "efficiency range economy consumption performance">>,
     <<"maintenance", "maintenance service repair care upkeep inspection">>,
     <<"service", "service maintenance repair check inspection care">>,
     <<"problem", "problem issue error fault trouble failure malfunction">>,
     <<"error", "error problem issue fault warning message trouble">>,
     <<"issue", "issue problem error trouble fault concern">>,
     <<"performance", "performance speed acceleration power efficiency capability">>,
     <<"speed", "speed performance acceleration fast velocity">>,
     <<"price", "price cost pricing fee charge payment rate">>,
     <<"cost", "cost price pricing fee expense payment">> >>

TermsPerTrigger == 5

MaxExpandedTerms == 8

\* The terms pushed by the first k dictionary entries, in entry order.
RECURSIVE CollectTerms(_, _)
CollectTerms(lowerQuery, k) ==
  IF k = 0 THEN <<>>
  ELSE CollectTerms(lowerQuery, k - 1) \o
       (IF Includes(lowerQuery, ToLowerCase(QUERY_EXPANSIONS[k][1]))
        THEN FirstN(SplitChar(QUERY_EXPANSIONS[k][2], " "), TermsPerTrigger)
        ELSE <<>>)

\* Without the Set: the pushed terms, duplicates included.
expandQueryKeepsDuplicates(query) ==
  LET lowerQuery    == ToLowerCase(query)
      pushed        == CollectTerms(lowerQuery, Len(QUERY_EXPANSIONS))
      expandedTerms == FirstN(pushed, MaxExpandedTerms)
  IN IF Len(expandedTerms) > 0
     THEN query \o " " \o Join(expandedTerms, " ")
     ELSE query

expandQuery(query) ==
  LET lowerQuery    == ToLowerCase(query)
      pushed        == CollectTerms(lowerQuery, Len(QUERY_EXPANSIONS))
      expandedTerms == FirstN(Dedup(pushed), MaxExpandedTerms)
  IN IF Len(expandedTerms) > 0
     THEN query \o " " \o Join(expandedTerms, " ")
     ELSE query

(***************************************************************************)
(* lib/rag.ts: keyword relevance and hybrid re-ranking.                    *)
(***************************************************************************)
stopWords ==
  {"the", "a", "an", "and", "or", "but", "in", "on", "at", "to", "for",
   "of", "with", "by", "from", "as", "is", "was", "are", "been", "be",
   "have", "has", "had", "do", "does", "did", "will", "would", "could",
   "should", "may", "might", "can", "about", "into", "through", "during",
   "before", "after", "above", "below", "between", "under", "again",
   "further", "then", "once", "here", "there", "when", "where", "why",
   "how", "all", "both", "each", "few", "more", "most", "other", "some",
   "such", "only", "own", "same", "so", "than", "too", "very", "just"}

IsQueryWord(word) == Len(word) > 2 /\ word \notin stopWords

queryWordsOf(query) == SelectSeq(SplitWhitespace(ToLowerCase(query)), IsQueryWord)

IsExactMatch(contentLower, word) ==
  \/ Includes(contentLower, " " \o word \o " ")
  \/ StartsWith(contentLower, word)
  \/ EndsWith(contentLower, word)

\* totalMatches returned as it is: no division by the number of words, no cap.
keywordMatchesUndivided(query, content) ==
  LET queryWords   == queryWordsOf(query)
      contentLower == ToLowerCase(content)
      exact        == {i \in 1..Len(queryWords) : IsExactMatch(contentLower, queryWords[i])}
      partial      == {i \in 1..Len(queryWords) :
                         /\ ~IsExactMatch(contentLower, queryWords[i])
                         /\ Includes(contentLower, queryWords[i])}
  IN DoubleOf(2 * Cardinality(exact) + Cardinality(partial), 2)

\* The loop of calculateKeywordRelevance over queryWords and what follows it.
KeywordRelevanceOf(queryWords, contentLower) ==
  LET exact        == {i \in 1..Len(queryWords) : IsExactMatch(contentLower, queryWords[i])}
      partial      == {i \in 1..Len(queryWords) :
                         /\ ~IsExactMatch(contentLower, queryWords[i])
                         /\ Includes(contentLower, queryWords[i])}
      \* exactMatches + partialMatches: a count plus a sum of 0.5s, a multiple
      \* of 0.5 and so computed without rounding
      totalMatches   == DoubleOf(2 * Cardinality(exact) + Cardinality(partial), 2)
      relevanceScore == IF Len(queryWords) > 0
                        THEN DoubleDivInt(totalMatches, Len(queryWords))
                        ELSE DoubleOf(0, 1)
  IN DoubleMin(relevanceScore, DoubleOf(1, 1))

calculateKeywordRelevance(query, content) ==
  KeywordRelevanceOf(queryWordsOf(query), ToLowerCase(content))

DefaultVectorWeight == DoubleOf(7, 10)

DefaultKeywordWeight == DoubleOf(3, 10)

\* The map without "similarity: hybridScore": similarity stays the vector score.
ScoreDocumentKeepsVector(query, doc, vectorWeight, keywordWeight) ==
  LET keywordRelevance == calculateKeywordRelevance(query, doc.content)
  IN [id |-> doc.id, content |-> doc.content, metadata |-> doc.metadata,
      originalSimilarity |-> doc.similarity,
      keywordRelevance |-> keywordRelevance,
      similarity |-> doc.similarity]

\* The object the map of rerankResults returns for doc, given its keyword
\* relevance: the hybrid score replaces similarity.
Scored(doc, keywordRelevance, vectorWeight, keywordWeight) ==
  [id |-> doc.id, content |-> doc.content, metadata |-> doc.metadata,
   originalSimilarity |-> doc.similarity,
   keywordRelevance |-> keywordRelevance,
   similarity |-> DoubleAdd(DoubleMul(doc.similarity, vectorWeight),
                            DoubleMul(keywordRelevance, keywordWeight))]

\* documents.map(...) of rerankResults.
ScoreDocument(query, doc, vectorWeight, keywordWeight) ==
  Scored(doc, calculateKeywordRelevance(query, doc.content), vectorWeight, keywordWeight)

\* The comparator turned round, (a, b) => a.similarity - b.similarity.
SortBySimilarityAsc(docs) ==
  LET rank(i) == 1 + Cardinality({j \in 1..Len(docs) :
                                    DoubleLess(docs[j].similarity, docs[i].similarity)})
                   + Cardinality({j \in 1..(i - 1) :
                                    DoubleEq(docs[j].similarity, docs[i].similarity)})
  IN [p \in 1..Len(docs) |-> docs[CHOOSE i \in 1..Len(docs) : rank(i) = p]]

\* Array.prototype.sort((a, b) => b.similarity - a.similarity): a stable sort,
\* so an element's place is fixed by the greater scores and the earlier ties.
SortBySimilarityDesc(docs) ==
  LET rank(i) == 1 + Cardinality({j \in 1..Len(docs) :
                                    DoubleLess(docs[i].similarity, docs[j].similarity)})
                   + Cardinality({j \in 1..(i - 1) :
                                    DoubleEq(docs[j].similarity, docs[i].similarity)})
  IN [p \in 1..Len(docs) |-> docs[CHOOSE i \in 1..Len(docs) : rank(i) = p]]

rerankResults(query, documents, vectorWeight, keywordWeight) ==
  SortBySimilarityDesc(
    [i \in 1..Len(documents) |->
       ScoreDocument(query, documents[i], vectorWeight, keywordWeight)])

(***************************************************************************)
(* lib/rag.ts: context and prompt assembly.                                *)
(***************************************************************************)
\* text.replace(/^\[<tag>:.*?\]\n/gm, ''): with the m flag ^ matches at the
\* start of the text and after a line terminator (LF or CR; U+2028 and U+2029
\* occur in no text of the model), and . matches no line terminator.  So a
\* match is a whole line that starts with "[<tag>:", ends with "]" and is
\* terminated by LF; it is removed together with that LF.
\* lines[i] is a line of the text with the terminator that ends it.
IsHeaderLine(lines, i, tag) ==
  LET prefix == "[" \o tag \o ":"
  IN /\ StartsWith(lines[i], prefix)
     /\ EndsWith(lines[i], "]\n")
     /\ Len(lines[i]) > Len(prefix) + 1

RECURSIVE KeepNonHeaders(_, _, _)
KeepNonHeaders(lines, n, tag) ==
  IF n = 0 THEN <<>>
  ELSE KeepNonHeaders(lines, n - 1, tag) \o
       (IF IsHeaderLine(lines, n, tag) THEN <<>> ELSE <<lines[n]>>)

RemoveHeaderLines(text, tag) ==
  LET seps == Positions("lineTerminator", text, 1, Len(text))
      n    == Len(seps)
      from(k) == IF k = 1 THEN 1 ELSE seps[k - 1] + 1
      to(k)   == IF k = n + 1 THEN Len(text) ELSE seps[k]
      lines   == [k \in 1..(n + 1) |-> SubSeq(text, from(k), to(k))]
  IN Join(KeepNonHeaders(lines, Len(lines), tag), "")

\* Only the [Source: ...] line is removed.
extractSourceHeaderOnly(enrichedContent) ==
  Trim(RemoveHeaderLines(enrichedContent, "Source"))

extractCleanContent(enrichedContent) ==
  Trim(RemoveHeaderLines(RemoveHeaderLines(enrichedContent, "Source"), "Section"))

ToSource(doc) ==
  [document |-> doc.metadata.document, page |-> doc.metadata.page,
   content |-> extractCleanContent(doc.content), similarity |-> doc.similarity]

ContextEntry(doc, idx) ==
  "[Source " \o NumToString(idx) \o ": " \o doc.metadata.document \o ", Page "
    \o NumToString(doc.metadata.page) \o "]\n" \o extractCleanContent(doc.content)

buildContext(documents) ==
  [sources |-> [i \in 1..Len(documents) |-> ToSource(documents[i])],
   context |-> Join([i \in 1..Len(documents) |-> ContextEntry(documents[i], i)],
                    "\n\n---\n\n")]

buildSystemPrompt(context) ==
  "You are a helpful VoltDrive customer support assistant. You help customers with questions about their VoltDrive electric vehicles.\n\nUse the following context from VoltDrive documentation to answer questions. The context includes relevant excerpts with source information.\n\nContext from VoltDrive documentation:\n"
    \o context
    \o "\n\nInstructions:\n- Be friendly, professional, and concise\n- ALWAYS cite specific sources when providing information (e.g., \"According to the Troubleshooting Guide, page 3...\")\n- If the answer isn't fully covered in the context, say so clearly and offer to help with related topics\n- Focus on practical, actionable advice\n- Use the customer's terminology but clarify technical terms when needed\n- If multiple sources provide relevant information, synthesize them coherently\n- Prioritize safety and accuracy over being comprehensive"

FallbackSystemPrompt ==
  "You are a helpful VoltDrive customer support assistant. \n\nI apologize, but I couldn't find specific information in the VoltDrive documentation to answer your question. \n\nHowever, I'm here to help! I can assist with:\n- Troubleshooting common issues\n- Warranty and coverage questions  \n- Charging and battery information\n- General vehicle operation\n- Maintenance schedules\n\nCould you rephrase your question or ask about one of these topics?"

FinalTopN == 5

(***************************************************************************)
(* The vector store (supabase-setup.sql, lib/supabase.ts).  An embedding   *)
(* is a unit vector, written as its angle in steps of 30 degrees; the      *)
(* similarity 1 - cosine distance of two embeddings is the cosine of the   *)
(* angle between them, the double nearest to its value in hundredths.      *)
(***************************************************************************)
MaxDir == 3

Embeddings == 0..MaxDir

CosineHundredths == <<100, 87, 50, 0, -50, -87, -100>>

\* The doubles nearest to these cosines.
CosineValues == [k \in 1..Len(CosineHundredths) |-> DoubleOf(CosineHundredths[k], 100)]

\* 1 - (embedding <=> query_embedding), a double precision value
Similarity(embedding, query_embedding) ==
  CosineValues[Abs(embedding - query_embedding) + 1]

MatchRow(row, query_embedding) ==
  [id |-> row.id, content |-> row.content, metadata |-> row.metadata,
   similarity |-> Similarity(row.embedding, query_embedding)]

\* The filter written with >= instead of >.
PassesThresholdInclusive(similarity, match_threshold) ==
  ~DoubleLess(similarity, match_threshold)

\* where 1 - (embedding <=> query_embedding) > match_threshold
PassesThreshold(similarity, match_threshold) == DoubleLess(match_threshold, similarity)

\* order by distance limit count: every order of the rows in S by decreasing
\* similarity, cut after count rows (SQL leaves the order of equal keys open).
RECURSIVE OrderedLimit(_, _, _, _)
OrderedLimit(rows, S, query_embedding, count) ==
  IF S = {} \/ count = 0 THEN {<<>>}
  ELSE LET sim(i) == Similarity(rows[i].embedding, query_embedding)
           nearest == {i \in S : \A j \in S : ~DoubleLess(sim(i), sim(j))}
       IN UNION {{<<MatchRow(rows[i], query_embedding)>> \o rest :
                    rest \in OrderedLimit(rows, S \ {i}, query_embedding, count - 1)} :
                 i \in nearest}

\* where 1 - (embedding <=> query_embedding) > match_threshold, over all rows
PassingRows(rows, query_embedding, match_threshold) ==
  {i \in 1..Len(rows) :
     PassesThreshold(Similarity(rows[i].embedding, query_embedding), match_threshold)}

\* The possible results of select ... from document_chunks in match_documents.
\* The table has an ivfflat index on embedding (vector_cosine_ops, lists =
\* 100), and "order by embedding <=> query_embedding limit n" is the query that
\* index serves.  A scan of it reads only the rows of the probed lists
\* (ivfflat.probes is 1 by default), in order of distance, and the where
\* clause filters what it reads; which rows share a list depends on the
\* centres chosen when the index was built.  So the rows found can be any set
\* of rows that pass the filter (all of them under a sequential scan), and
\* the result is the count nearest of those.
match_documents(rows, query_embedding, match_count, match_threshold) ==
  UNION {OrderedLimit(rows, found, query_embedding, match_count) :
           found \in SUBSET PassingRows(rows, query_embedding, match_threshold)}

(***************************************************************************)
(* Inputs of the query path.                                               *)
(***************************************************************************)
\* One row more than performRAG surfaces, so that a search can return more
\* candidates than there will be Sources.
MaxRows == FinalTopN + 1

MaxFragments == 2

TroubleshootingGuide == "VoltDrive Troubleshooting Guide"

WarrantyPricing == "VoltDrive Warranty & Pricing"

Meta(document, page, section, chunk_index) ==
  [document |-> document, page |-> page, section |-> section,
   chunk_index |-> chunk_index]

\* A corpus as an earlier ingestion run left it: <<content, embedding, metadata>>.
SampleChunks ==
  << <<"Charging cable and station.", 0, Meta(TroubleshootingGuide, 1, "Introduction", 0)>>,
     <<"Extended warranty coverage applies.", 1, Meta(WarrantyPricing, 1, "Introduction", 0)>>,
     <<"The warranty covers defects.", 2, Meta(WarrantyPricing, 1, "Introduction", 1)>>,
     <<"Charging cable and station.", 0, Meta(TroubleshootingGuide, 2, "CHARGING", 0)>>,
     <<"Battery warranty", 3, Meta(WarrantyPricing, 2, "BATTERY", 0)>>,
     <<"Range and efficiency tips.", 1, Meta(TroubleshootingGuide, 3, "RANGE", 0)>>,
     <<"warranty coverage", 2, Meta(WarrantyPricing, 3, "BATTERY", 0)>>,
     <<"Prewarranty coverage.", 3, Meta(WarrantyPricing, 3, "BATTERY", 1)>> >>

SampleStore(n) ==
  [i \in 1..n |-> [id |-> i, content |-> SampleChunks[i][1],
                   embedding |-> SampleChunks[i][2],
                   metadata |-> SampleChunks[i][3]]]

Queries == {"warranty coverage", "What's covered under warranty?", "is it on"}

TopKs == {0, 2, 5, 8}

DefaultTopK == 8

DefaultSimilarityThreshold == DoubleOf(3, 10)

Thresholds == {DefaultSimilarityThreshold, DoubleOf(1, 2)}

Fragments == {"", "Hel", "lo"}

Turn(role, content) == [role |-> role, content |-> content]

Histories ==
  {<<>>,
   <<Turn("user", "hi"), Turn("assistant", "Hello!"),
     Turn("user", "range?"), Turn("assistant", "300 miles")>>}

\* What req.json() yields: a body that is not JSON, or the parsed ChatRequest
\* (hasHistory tells whether conversationHistory was sent at all).
RequestBodies ==
  {[json |-> FALSE, hasMessage |-> FALSE, message |-> "", hasHistory |-> FALSE,
    conversationHistory |-> <<>>]}
  \cup
  {[json |-> TRUE, hasMessage |-> FALSE, message |-> "", hasHistory |-> h # <<>>,
    conversationHistory |-> h] : h \in Histories}
  \cup
  {[json |-> TRUE, hasMessage |-> TRUE, message |-> m, hasHistory |-> h # <<>>,
    conversationHistory |-> h] : m \in Queries \cup {""}, h \in Histories}

EndpointTopK == 5

(***************************************************************************)
(* scripts/ingest-documents.ts: chunking and enrichment.                   *)
(***************************************************************************)
\* text.replace(/\s+/g, ' ')
CollapseWhitespace(text) == Join(SplitWhitespace(text), " ")

\* text.replace(/\. /g, '.\n')
DotBlankToNewline(text) ==
  LET blanks == Positions("blankAfterDot", text, 1, Len(text))
  IN Join(SplitAt(text, blanks, blanks), "\n")

\* text.split(/(?<=[.!?])\s+/)
SplitSentences(text) ==
  SplitAt(text, Positions("breakStart", text, 1, Len(text)),
                Positions("breakEnd", text, 1, Len(text)))

OverlapSentences == 3

MinFinalChunkLength == 100

\* The for loop of chunkTextSemantic from sentence i on; yields the chunks
\* pushed and the running chunk left after the last sentence.
RECURSIVE ChunkLoop(_, _, _, _, _, _)
ChunkLoop(sentences, i, chunks, currentChunk, currentLength, chunkSize) ==
  IF i > Len(sentences)
  THEN [chunks |-> chunks, currentChunk |-> currentChunk]
  ELSE LET sentence       == sentences[i]
           sentenceLength == Len(sentence)
       IN IF currentLength + sentenceLength > chunkSize /\ Len(currentChunk) > 0
          THEN LET overlapSentences ==
                     Join(LastN(SplitSentences(currentChunk), OverlapSentences), " ")
                   started == overlapSentences \o " " \o sentence
               IN ChunkLoop(sentences, i + 1, Append(chunks, Trim(currentChunk)),
                            started, Len(started), chunkSize)
          ELSE ChunkLoop(sentences, i + 1, chunks,
                         currentChunk \o (IF currentChunk # "" THEN " " ELSE "")
                           \o sentence,
                         currentLength + sentenceLength, chunkSize)

chunkTextSemantic(text, chunkSize, overlap) ==
  LET cleanText == Trim(DotBlankToNewline(CollapseWhitespace(text)))
  IN IF Len(cleanText) = 0 THEN <<>>
     ELSE IF Len(cleanText) <= chunkSize THEN <<cleanText>>
     ELSE LET left == ChunkLoop(SplitSentences(cleanText), 1, <<>>, "", 0, chunkSize)
          IN IF Len(Trim(left.currentChunk)) > MinFinalChunkLength
             THEN Append(left.chunks, Trim(left.currentChunk))
             ELSE left.chunks

MinHeaderLength == 5

MaxHeaderLength == 60

enrichChunkWithContext(chunk, documentName, page, chunkIndex, totalChunks) ==
  LET lines == SplitChar(chunk, "\n")
      hasHeader == Len(lines[1]) < MaxHeaderLength /\ Len(lines[1]) > MinHeaderLength
  IN "[Source: " \o documentName \o ", Page " \o NumToString(page) \o "]\n"
       \o (IF hasHeader THEN "[Section: " \o lines[1] \o "]\n" ELSE "")
       \o "\n" \o chunk

(***************************************************************************)
(* scripts/ingest-documents.ts: section detection and page splitting.      *)
(***************************************************************************)
Undefined == "<undefined>"

\* /^\d+\.\s+[A-Z]/.test(t)
IsNumberedHeader(t) ==
  \E d \in 1..Len(t) :
    /\ \A k \in 1..d : IsDigit(CharAt(t, k))
    /\ CharAt(t, d + 1) = "."
    /\ \E w \in 1..Len(t) :
         /\ \A k \in (d + 2)..(d + 1 + w) : IsSpace(CharAt(t, k))
         /\ IsUpper(CharAt(t, d + 2 + w))

\* /^[A-Z][a-z]+$/.test(word)
IsCapitalizedWord(word) ==
  /\ Len(word) >= 2
  /\ IsUpper(CharAt(word, 1))
  /\ \A k \in 2..Len(word) : IsLower(CharAt(word, k))

\* /^[A-Z][a-z]+(\s+[A-Z][a-z]+)*:$/.test(t)
IsTitleWithColon(t) ==
  /\ EndsWith(t, ":")
  /\ LET words == SplitWhitespace(SubSeq(t, 1, Len(t) - 1))
     IN \A k \in 1..Len(words) : IsCapitalizedWord(words[k])

IsSectionHeader(trimmed) ==
  \/ (Len(trimmed) > 0 /\ Len(trimmed) < MaxHeaderLength
        /\ trimmed = ToUpperCase(trimmed))
  \/ IsNumberedHeader(trimmed)
  \/ IsTitleWithColon(trimmed)

\* t.replace(/:$/, '')
DropFinalColon(t) == IF EndsWith(t, ":") THEN SubSeq(t, 1, Len(t) - 1) ELSE t

PushSection(sections, header, content) ==
  IF Trim(content) # ""
  THEN Append(sections, [header |-> header, content |-> Trim(content)])
  ELSE sections

\* The for loop of detectSections from line i on, and the final push.
RECURSIVE SectionLoop(_, _, _, _, _)
SectionLoop(lines, i, sections, currentHeader, currentContent) ==
  IF i > Len(lines)
  THEN PushSection(sections, currentHeader, currentContent)
  ELSE LET trimmed == Trim(lines[i])
       IN IF IsSectionHeader(trimmed)
          THEN SectionLoop(lines, i + 1,
                           PushSection(sections, currentHeader, currentContent),
                           DropFinalColon(trimmed), "")
          ELSE SectionLoop(lines, i + 1, sections, currentHeader,
                           currentContent \o lines[i] \o "\n")

detectSections(text) == SectionLoop(SplitChar(text, "\n"), 1, <<>>, "Introduction", "")

\* The header of the first section whose running content length passes start.
RECURSIVE SectionAt(_, _, _, _)
SectionAt(sections, k, currentPos, start) ==
  IF k > Len(sections) THEN Undefined
  ELSE IF currentPos + Len(sections[k].content) > start THEN sections[k].header
  ELSE SectionAt(sections, k + 1, currentPos + Len(sections[k].content), start)

CeilDiv(a, b) == (a + b - 1) \div b

EstimatedCharsPerPage == 2000

\* The page loop of processPDF: pages i+1..numPages of charsPerPage characters.
RECURSIVE PageLoop(_, _, _, _, _, _)
PageLoop(fullText, sections, withSections, charsPerPage, numPages, i) ==
  IF i >= numPages THEN <<>>
  ELSE LET start    == i * charsPerPage
           end      == Min((i + 1) * charsPerPage, Len(fullText))
           pageText == SubSeq(fullText, start + 1, end)
           rest     == PageLoop(fullText, sections, withSections, charsPerPage,
                                numPages, i + 1)
       IN IF Trim(pageText) # ""
          THEN <<[page |-> i + 1, text |-> pageText,
                  section |-> IF withSections
                              THEN SectionAt(sections, 1, 0, start)
                              ELSE Undefined]>> \o rest
          ELSE rest

\* processPDF once pdf-parse has returned data = [text, numpages].
processPDF(data) ==
  LET fullText == data.text
      sections == detectSections(fullText)
  IN IF data.numpages > 0
     THEN PageLoop(fullText, sections, TRUE,
                   CeilDiv(Len(fullText), data.numpages), data.numpages, 0)
     ELSE PageLoop(fullText, sections, FALSE, EstimatedCharsPerPage,
                   CeilDiv(Len(fullText), EstimatedCharsPerPage), 0)

(***************************************************************************)
(* Inputs of the ingestion script: the two configured documents and what   *)
(* the file system holds at their paths.                                   *)
(***************************************************************************)
IngestDocuments ==
  << [name |-> TroubleshootingGuide, path |-> "documents/troubleshooting_md.pdf"],
     [name |-> WarrantyPricing, path |-> "documents/warrantypricing_md.pdf"] >>

ChunkSize == 500

ChunkOverlap == 100

BatchSize == 50

GuideSentence(k) ==
  "Step " \o NumToString(k) \o " explains how to charge the battery at home."

RangeTip(k) ==
  "Tip " \o NumToString(k) \o " helps to extend the driving range in winter!"

\* What pdf-parse returns for the two sample files: [text, numpages].  The
\* guide has a dense first page and a second page with blank lines.
GuidePdf ==
  [text |-> "CHARGING\n" \o Join([k \in 1..13 |-> GuideSentence(k)], " ")
              \o "\n\n\n\nRANGE\n\n\n"
              \o Join([k \in 1..7 |-> RangeTip(k)], "\n\n\n    ")
              \o "\n" \o Join([k \in 1..120 |-> ""], " ") \o "\n",
   numpages |-> 2]

NotePdf ==
  [text |-> "Warranty Terms:\nThe battery warranty lasts eight years. Coverage includes defects!\n",
   numpages |-> 1]

MissingFile == [exists |-> FALSE, readable |-> FALSE, data |-> [text |-> "", numpages |-> 0]]

CorruptFile == [exists |-> TRUE, readable |-> FALSE, data |-> [text |-> "", numpages |-> 0]]

PdfFile(data) == [exists |-> TRUE, readable |-> TRUE, data |-> data]

FileSystems ==
  {<<f1, f2>> : f1 \in {MissingFile, CorruptFile, PdfFile(GuidePdf)},
                f2 \in {MissingFile, CorruptFile, PdfFile(NotePdf)}}

Runs == {1, 2}

(***************************************************************************)
(* State.                                                                  *)
(***************************************************************************)
VARIABLES
  store,          \* the rows of document_chunks, in insertion order
  nextId,         \* the next value of the bigserial id
  files,          \* what the file system holds at the documents' paths
  ing,            \* the state of each run of the ingestion script
  pc,             \* where the query in progress stands
  entry,          \* who called performRAG: "direct" or the endpoint "POST"
  request,        \* the body of the endpoint's request
  ragArgs,        \* performRAG's arguments [query, topK, similarityThreshold]
  queryEmbedding, \* the embedding generateEmbedding returned
  documents,      \* what searchSimilarDocuments returned
  rerankedDocs,   \* rerankResults(query, documents)
  ragOutcome,     \* "none", "returned" or "threw"
  ragResult,      \* performRAG's return value [context, sources, systemPrompt]
  calls,          \* the upstream calls issued so far, in order
  response,       \* the endpoint's HTTP response
  events,         \* the events enqueued on the response stream, in order
  produced,       \* the fragments the generation stream has yielded, in order
  pure,           \* the application of a function under study: input and result
  client          \* the chat client (components/ChatInterface.tsx): its state and its request

queryVars == <<pc, entry, request, ragArgs, queryEmbedding, documents, rerankedDocs,
               ragOutcome, ragResult, calls, response, events, produced>>

storeVars == <<store, nextId>>

vars == <<store, nextId, files, pure, client, ing, queryVars>>

NoResponse == [status |-> 0, body |-> ""]

EmptyResult == [context |-> "", sources |-> <<>>, systemPrompt |-> ""]

QueryIdle ==
  /\ pc = "idle"
  /\ entry = "none"
  /\ request = [json |-> FALSE, hasMessage |-> FALSE, message |-> "",
                hasHistory |-> FALSE, conversationHistory |-> <<>>]
  /\ ragArgs = [query |-> "", topK |-> 0, similarityThreshold |-> DoubleOf(0, 1)]
  /\ queryEmbedding = 0
  /\ documents = <<>>
  /\ rerankedDocs = <<>>
  /\ ragOutcome = "none"
  /\ ragResult = EmptyResult
  /\ calls = <<>>
  /\ response = NoResponse
  /\ events = <<>>
  /\ produced = <<>>

IdleRun ==
  [pc |-> "idle", doc |-> 1, pages |-> <<>>, page |-> 1, chunks |-> <<>>,
   chunk |-> 0, allChunks |-> <<>>, batch |-> 0, sent |-> <<>>,
   outcomes |-> <<>>, error |-> "none"]

IngestIdle == ing = [r \in Runs |-> IdleRun]

NoApplication == [fn |-> "none"]

\* ChatInterface before the first message: the useState values (messages,
\* isLoading), the locals of the sendUserMessage call in progress
\* (assistantMessage, sources, assistantMessageId), the request body handed to
\* fetch, and the number of characters of the response body read so far.
ClientIdle ==
  [pc |-> "idle", isLoading |-> FALSE, messages |-> <<>>,
   body |-> [message |-> "", conversationHistory |-> <<>>],
   assistantMessage |-> "", sources |-> <<>>, assistantMessageId |-> "",
   pos |-> 0]

Init ==
  /\ store \in {SampleStore(n) : n \in 0..MaxRows}
  /\ nextId = Len(store) + 1
  /\ files = <<MissingFile, MissingFile>>
  /\ pure = NoApplication
  /\ IngestIdle
  /\ QueryIdle
  /\ client = ClientIdle

(***************************************************************************)
(* lib/rag.ts performRAG, one action per await.                            *)
(***************************************************************************)
EmbeddingCall(text) == [service |-> "embedding", input |-> text]

SearchCall(embedding, matchCount, matchThreshold) ==
  [service |-> "search", query_embedding |-> embedding,
   match_count |-> matchCount, match_threshold |-> matchThreshold]

GenerationCall(messages) == [service |-> "generation", messages |-> messages]

\* generateEmbedding called on the query as typed, not on the expanded one.
StartRAGEmbedsOriginal(query, topK, similarityThreshold) ==
  /\ ragArgs' = [query |-> query, topK |-> topK,
                 similarityThreshold |-> similarityThreshold]
  /\ calls' = Append(calls, EmbeddingCall(query))
  /\ pc' = "embedding"

\* Steps 1 and 2 up to the await: expand the query, call generateEmbedding.
StartRAG(query, topK, similarityThreshold) ==
  /\ ragArgs' = [query |-> query, topK |-> topK,
                 similarityThreshold |-> similarityThreshold]
  /\ calls' = Append(calls, EmbeddingCall(expandQuery(query)))
  /\ pc' = "embedding"

\* performRAG cutting the re-ranked list at topK instead of Math.min(5, topK).
RAGReturnValueTopK(topK, docs, reranked) ==
  IF Len(docs) > 0
  THEN LET topResults == FirstN(reranked, topK)
           built      == buildContext(topResults)
       IN [context |-> built.context, sources |-> built.sources,
           systemPrompt |-> buildSystemPrompt(built.context)]
  ELSE [context |-> "", sources |-> <<>>, systemPrompt |-> FallbackSystemPrompt]

\* performRAG without the "if (documents.length > 0)" branch: the prompt is
\* always built from the context.
RAGReturnValueNoFallback(topK, docs, reranked) ==
  LET topResults == FirstN(reranked, Min(FinalTopN, topK))
      built      == buildContext(topResults)
  IN [context |-> built.context, sources |-> built.sources,
      systemPrompt |-> buildSystemPrompt(built.context)]

\* Step 5 and the return statements, for the documents of the search and
\* the output of rerankResults on them.
RAGReturnValue(topK, docs, reranked) ==
  IF Len(docs) > 0
  THEN LET topResults == FirstN(reranked, Min(FinalTopN, topK))
           built      == buildContext(topResults)
       IN [context |-> built.context, sources |-> built.sources,
           systemPrompt |-> buildSystemPrompt(built.context)]
  ELSE [context |-> "", sources |-> <<>>, systemPrompt |-> FallbackSystemPrompt]

\* app/api/chat/route.ts: the messages array for the generation service.
BuildMessages(systemPrompt, body) ==
  <<Turn("system", systemPrompt)>>
    \o LastN(body.conversationHistory, 3)
    \o <<Turn("user", body.message)>>

InternalError == [status |-> 500, body |-> "Internal server error"]

\* The failure swallowed: the endpoint goes on to the generation call.
RAGSwallows ==
  /\ ragOutcome' = "threw"
  /\ response' = response
  /\ pc' = IF entry = "POST" THEN "generating" ELSE "threw"

\* An exception leaves performRAG: the direct caller sees it, the endpoint's
\* outer catch answers 500.
RAGThrows ==
  /\ ragOutcome' = "threw"
  /\ IF entry = "POST"
     THEN /\ response' = InternalError
          /\ pc' = "responded"
     ELSE /\ response' = response
          /\ pc' = "threw"

DirectCall(query, topK, similarityThreshold) ==
  /\ pc = "idle"
  /\ entry' = "direct"
  /\ StartRAG(query, topK, similarityThreshold)
  /\ UNCHANGED <<store, nextId, files, pure, client, ing, request, queryEmbedding, documents, rerankedDocs,
                 ragOutcome, ragResult, response, events, produced>>

EmbeddingReturns(embedding) ==
  /\ pc = "embedding"
  /\ queryEmbedding' = embedding
  /\ calls' = Append(calls, SearchCall(embedding, ragArgs.topK,
                                       ragArgs.similarityThreshold))
  /\ pc' = "searching"
  /\ UNCHANGED <<store, nextId, files, pure, client, ing, entry, request, ragArgs, documents, rerankedDocs,
                 ragOutcome, ragResult, response, events, produced>>

EmbeddingFails ==
  /\ pc = "embedding"
  /\ RAGThrows
  /\ UNCHANGED <<store, nextId, files, pure, client, ing, entry, request, ragArgs, queryEmbedding, documents,
                 rerankedDocs, ragResult, calls, events, produced>>

\* Step 4, inside "if (documents.length > 0)"; no document, nothing re-ranked.
Reranked(query, docs) ==
  IF Len(docs) > 0
  THEN rerankResults(query, docs, DefaultVectorWeight, DefaultKeywordWeight)
  ELSE <<>>

\* performRAG from the answer of the search to its return (all synchronous).
FinishRAG(data, reranked) ==
  /\ documents' = data
  /\ rerankedDocs' = reranked
  /\ ragResult' = RAGReturnValue(ragArgs.topK, data, reranked)
  /\ ragOutcome' = "returned"
  /\ IF entry = "POST"
     THEN /\ calls' = Append(calls, GenerationCall(
                         BuildMessages(ragResult'.systemPrompt, request)))
          /\ pc' = "generating"
     ELSE /\ calls' = calls
          /\ pc' = "returned"

SearchReturns(data) ==
  /\ pc = "searching"
  /\ FinishRAG(data, Reranked(ragArgs.query, data))
  /\ UNCHANGED <<store, nextId, files, pure, client, ing, entry, request, ragArgs, queryEmbedding, response,
                 events, produced>>

SearchFails ==
  /\ pc = "searching"
  /\ RAGThrows
  /\ UNCHANGED <<store, nextId, files, pure, client, ing, entry, request, ragArgs, queryEmbedding, documents,
                 rerankedDocs, ragResult, calls, events, produced>>

(***************************************************************************)
(* app/api/chat/route.ts POST.                                             *)
(***************************************************************************)
SourcesEvent(sources) == [type |-> "sources", sources |-> sources, content |-> ""]

ContentEvent(content) == [type |-> "content", sources |-> <<>>, content |-> content]

DoneMarker == [type |-> "[DONE]", sources |-> <<>>, content |-> ""]

\* POST without the "if (!message)" check.
PostRequestUnchecked(body) ==
  /\ pc = "idle"
  /\ entry' = "POST"
  /\ request' = body
  /\ IF ~body.json
     THEN /\ response' = InternalError
          /\ pc' = "responded"
          /\ UNCHANGED <<ragArgs, calls>>
     ELSE /\ StartRAG(body.message, EndpointTopK, DefaultSimilarityThreshold)
          /\ response' = response
  /\ UNCHANGED <<store, nextId, files, pure, client, ing, queryEmbedding, documents, rerankedDocs, ragOutcome,
                 ragResult, events, produced>>

PostRequest(body) ==
  /\ pc = "idle"
  /\ entry' = "POST"
  /\ request' = body
  /\ IF ~body.json
     THEN \* req.json() throws: the outer catch
          /\ response' = InternalError
          /\ pc' = "responded"
          /\ UNCHANGED <<ragArgs, calls>>
     ELSE IF ~body.hasMessage \/ body.message = ""
     THEN \* if (!message)
          /\ response' = [status |-> 400, body |-> "Message is required"]
          /\ pc' = "responded"
          /\ UNCHANGED <<ragArgs, calls>>
     ELSE /\ StartRAG(body.message, EndpointTopK, DefaultSimilarityThreshold)
          /\ response' = response
  /\ UNCHANGED <<store, nextId, files, pure, client, ing, queryEmbedding, documents, rerankedDocs, ragOutcome,
                 ragResult, events, produced>>

\* start() without the enqueue of the sources event.
GenerationReturnsNoSources ==
  /\ pc = "generating"
  /\ events' = <<>>
  /\ response' = [status |-> 200, body |-> "text/event-stream"]
  /\ pc' = "streaming"
  /\ UNCHANGED <<store, nextId, files, pure, client, ing, entry, request, ragArgs, queryEmbedding, documents,
                 rerankedDocs, ragOutcome, ragResult, calls, produced>>

\* generateChatCompletion resolved: the stream is built, start() enqueues the
\* sources event and the Response is returned.
GenerationReturns ==
  /\ pc = "generating"
  /\ events' = <<SourcesEvent(ragResult.sources)>>
  /\ response' = [status |-> 200, body |-> "text/event-stream"]
  /\ pc' = "streaming"
  /\ UNCHANGED <<store, nextId, files, pure, client, ing, entry, request, ragArgs, queryEmbedding, documents,
                 rerankedDocs, ragOutcome, ragResult, calls, produced>>

GenerationFails ==
  /\ pc = "generating"
  /\ response' = InternalError
  /\ pc' = "responded"
  /\ UNCHANGED <<store, nextId, files, pure, client, ing, entry, request, ragArgs, queryEmbedding, documents,
                 rerankedDocs, ragOutcome, ragResult, calls, events, produced>>

\* One turn of for await (const chunk of completion): content is
\* chunk.choices[0]?.delta?.content || '', forwarded when it is not empty.
StreamFragment(content) ==
  /\ pc = "streaming"
  /\ Len(produced) < MaxFragments
  /\ produced' = Append(produced, content)
  /\ events' = IF content # "" THEN Append(events, ContentEvent(content)) ELSE events
  /\ UNCHANGED <<store, nextId, files, pure, client, ing, pc, entry, request, ragArgs, queryEmbedding, documents,
                 rerankedDocs, ragOutcome, ragResult, calls, response>>

\* The completion is exhausted: the done marker, then controller.close().
StreamEnds ==
  /\ pc = "streaming"
  /\ events' = Append(events, DoneMarker)
  /\ pc' = "closed"
  /\ UNCHANGED <<store, nextId, files, pure, client, ing, entry, request, ragArgs, queryEmbedding, documents,
                 rerankedDocs, ragOutcome, ragResult, calls, response, produced>>

\* The completion throws while it is iterated: controller.error(error).
StreamFails ==
  /\ pc = "streaming"
  /\ pc' = "errored"
  /\ UNCHANGED <<store, nextId, files, pure, client, ing, entry, request, ragArgs, queryEmbedding, documents,
                 rerankedDocs, ragOutcome, ragResult, calls, response, events,
                 produced>>

(***************************************************************************)
(* scripts/ingest-documents.ts ingestDocuments, run r; one action per      *)
(* await and per loop head.                                                *)
(***************************************************************************)
SetRun(r, fields) == ing' = [ing EXCEPT ![r] = fields]

\* The filter written .eq('id', 0) instead of .neq('id', 0).
RowSurvivesEq(row) == row.id # 0

\* clearAllDocuments: delete from document_chunks where id <> 0
RowSurvivesClear(row) == row.id = 0

ClearedStore(rows) == SelectSeq(rows, RowSurvivesClear)

\* insertDocumentChunks: the rows one insert adds, with their generated ids.
InsertedRows(batch, firstId) ==
  [k \in 1..Len(batch) |->
     [id |-> firstId + k - 1, content |-> batch[k].content,
      embedding |-> batch[k].embedding, metadata |-> batch[k].metadata]]

\* Every insert sending the whole list instead of the slice.
BatchWhole(allChunks, i) == allChunks

\* allChunks.slice(i, i + batchSize)
BatchFrom(allChunks, i) == SubSeq(allChunks, i + 1, Min(i + BatchSize, Len(allChunks)))

\* The script starts and calls clearAllDocuments.
StartIngest(r) ==
  /\ ing[r].pc = "idle"
  /\ SetRun(r, [ing[r] EXCEPT !.pc = "clearing"])
  /\ UNCHANGED <<store, nextId, files, pure, client, queryVars>>

ClearReturns(r) ==
  /\ ing[r].pc = "clearing"
  /\ store' = ClearedStore(store)
  /\ SetRun(r, [ing[r] EXCEPT !.pc = "nextDoc", !.doc = 1, !.allChunks = <<>>])
  /\ UNCHANGED <<nextId, files, pure, client, queryVars>>

\* The delete fails: clearAllDocuments throws and the script ends.
ClearFails(r) ==
  /\ ing[r].pc = "clearing"
  /\ SetRun(r, [ing[r] EXCEPT !.pc = "failed", !.error = "clearAllDocuments"])
  /\ UNCHANGED <<store, nextId, files, pure, client, queryVars>>

\* The document loop without the fs.existsSync check.
NextDocumentNoExistsCheck(r) ==
  /\ ing[r].pc = "nextDoc"
  /\ IF ing[r].doc > Len(IngestDocuments)
     THEN SetRun(r, [ing[r] EXCEPT !.pc = "nextBatch", !.batch = 0])
     ELSE SetRun(r, [ing[r] EXCEPT !.pc = "parsing"])
  /\ UNCHANGED <<store, nextId, files, pure, client, queryVars>>

\* Head of for (const doc of documents): a missing file is skipped, an
\* existing one is handed to processPDF; after the last document the insert
\* loop starts.
NextDocument(r) ==
  /\ ing[r].pc = "nextDoc"
  /\ IF ing[r].doc > Len(IngestDocuments)
     THEN SetRun(r, [ing[r] EXCEPT !.pc = "nextBatch", !.batch = 0])
     ELSE IF ~files[ing[r].doc].exists
     THEN SetRun(r, [ing[r] EXCEPT !.doc = @ + 1])
     ELSE SetRun(r, [ing[r] EXCEPT !.pc = "parsing"])
  /\ UNCHANGED <<store, nextId, files, pure, client, queryVars>>

ParseReturns(r) ==
  /\ ing[r].pc = "parsing"
  /\ files[ing[r].doc].readable
  /\ SetRun(r, [ing[r] EXCEPT !.pc = "nextPage",
                              !.pages = processPDF(files[ing[r].doc].data),
                              !.page = 1])
  /\ UNCHANGED <<store, nextId, files, pure, client, queryVars>>

\* The document loop catching the rejection of processPDF and going on with
\* the next document.
ParseFailsSkips(r) ==
  /\ ing[r].pc = "parsing"
  /\ ~files[ing[r].doc].readable
  /\ SetRun(r, [ing[r] EXCEPT !.pc = "nextDoc", !.doc = @ + 1])
  /\ UNCHANGED <<store, nextId, files, pure, client, queryVars>>

\* readFileSync or pdf-parse throws: processPDF rejects and the script ends.
ParseFails(r) ==
  /\ ing[r].pc = "parsing"
  /\ ~files[ing[r].doc].readable
  /\ SetRun(r, [ing[r] EXCEPT !.pc = "failed", !.error = "processPDF"])
  /\ UNCHANGED <<store, nextId, files, pure, client, queryVars>>

\* Head of for (const { page, text, section } of pages).
NextPage(r) ==
  /\ ing[r].pc = "nextPage"
  /\ IF ing[r].page > Len(ing[r].pages)
     THEN SetRun(r, [ing[r] EXCEPT !.pc = "nextDoc", !.doc = @ + 1])
     ELSE SetRun(r, [ing[r] EXCEPT
                       !.pc = "nextChunk",
                       !.chunks = chunkTextSemantic(ing[r].pages[ing[r].page].text,
                                                    ChunkSize, ChunkOverlap),
                       !.chunk = 0])
  /\ UNCHANGED <<store, nextId, files, pure, client, queryVars>>

\* Head of for (let i = 0; i < chunks.length; i++): the chunk is enriched
\* and the enriched text sent to generateEmbedding.
NextChunk(r) ==
  /\ ing[r].pc = "nextChunk"
  /\ IF ing[r].chunk >= Len(ing[r].chunks)
     THEN SetRun(r, [ing[r] EXCEPT !.pc = "nextPage", !.page = @ + 1])
     ELSE SetRun(r, [ing[r] EXCEPT
                       !.pc = "embedding",
                       !.sent = Append(@, enrichChunkWithContext(
                                  ing[r].chunks[ing[r].chunk + 1],
                                  IngestDocuments[ing[r].doc].name,
                                  ing[r].pages[ing[r].page].page,
                                  ing[r].chunk, Len(ing[r].chunks)))])
  /\ UNCHANGED <<store, nextId, files, pure, client, queryVars>>

\* The push storing the enriched text, content: enrichedChunk.
BuiltChunkEnriched(run, embedding) ==
  [content |-> run.sent[Len(run.sent)],
   embedding |-> embedding,
   metadata |-> Meta(IngestDocuments[run.doc].name, run.pages[run.page].page,
                     run.pages[run.page].section, run.chunk)]

\* The push with chunk_index: page instead of chunk_index: i.
BuiltChunkPageIndex(run, embedding) ==
  [content |-> run.chunks[run.chunk + 1],
   embedding |-> embedding,
   metadata |-> Meta(IngestDocuments[run.doc].name, run.pages[run.page].page,
                     run.pages[run.page].section, run.pages[run.page].page)]

\* allChunks.push({content: chunk, embedding, metadata})
BuiltChunk(run, embedding) ==
  [content |-> run.chunks[run.chunk + 1],
   embedding |-> embedding,
   metadata |-> Meta(IngestDocuments[run.doc].name, run.pages[run.page].page,
                     run.pages[run.page].section, run.chunk)]

EmbedChunkReturns(r, embedding) ==
  /\ ing[r].pc = "embedding"
  /\ SetRun(r, [ing[r] EXCEPT !.pc = "delay",
                              !.allChunks = Append(@, BuiltChunk(ing[r], embedding)),
                              !.outcomes = Append(@, "ok")])
  /\ UNCHANGED <<store, nextId, files, pure, client, queryVars>>

\* The catch leaving the chunk loop (break) instead of going on.
EmbedChunkFailsBreaks(r) ==
  /\ ing[r].pc = "embedding"
  /\ SetRun(r, [ing[r] EXCEPT !.pc = "nextChunk", !.chunk = Len(ing[r].chunks),
                              !.outcomes = Append(@, "error")])
  /\ UNCHANGED <<store, nextId, files, pure, client, queryVars>>

\* The catch inside the chunk loop: the error is logged, the loop goes on.
EmbedChunkFails(r) ==
  /\ ing[r].pc = "embedding"
  /\ SetRun(r, [ing[r] EXCEPT !.pc = "nextChunk", !.chunk = @ + 1,
                              !.outcomes = Append(@, "error")])
  /\ UNCHANGED <<store, nextId, files, pure, client, queryVars>>

\* The 200 ms setTimeout after a stored chunk has elapsed.
DelayElapsed(r) ==
  /\ ing[r].pc = "delay"
  /\ SetRun(r, [ing[r] EXCEPT !.pc = "nextChunk", !.chunk = @ + 1])
  /\ UNCHANGED <<store, nextId, files, pure, client, queryVars>>

\* Head of for (let i = 0; i < allChunks.length; i += batchSize).
NextBatch(r) ==
  /\ ing[r].pc = "nextBatch"
  /\ IF ing[r].batch < Len(ing[r].allChunks)
     THEN SetRun(r, [ing[r] EXCEPT !.pc = "inserting"])
     ELSE SetRun(r, [ing[r] EXCEPT !.pc = "done"])
  /\ UNCHANGED <<store, nextId, files, pure, client, queryVars>>

InsertReturns(r) ==
  /\ ing[r].pc = "inserting"
  /\ LET batch == BatchFrom(ing[r].allChunks, ing[r].batch)
     IN /\ store' = store \o InsertedRows(batch, nextId)
        /\ nextId' = nextId + Len(batch)
  /\ SetRun(r, [ing[r] EXCEPT !.pc = "nextBatch", !.batch = @ + BatchSize])
  /\ UNCHANGED <<files, pure, client, queryVars>>

\* The failed insert undoing the batches before it.
InsertFailsRollsBack(r) ==
  /\ ing[r].pc = "inserting"
  /\ store' = <<>>
  /\ SetRun(r, [ing[r] EXCEPT !.pc = "failed", !.error = "insertDocumentChunks"])
  /\ UNCHANGED <<nextId, files, pure, client, queryVars>>

\* The insert fails: insertDocumentChunks throws and the script ends.
InsertFails(r) ==
  /\ ing[r].pc = "inserting"
  /\ SetRun(r, [ing[r] EXCEPT !.pc = "failed", !.error = "insertDocumentChunks"])
  /\ UNCHANGED <<store, nextId, files, pure, client, queryVars>>

IngestStep(r) ==
  \/ StartIngest(r)
  \/ ClearReturns(r)
  \/ ClearFails(r)
  \/ NextDocument(r)
  \/ ParseReturns(r)
  \/ ParseFails(r)
  \/ NextPage(r)
  \/ NextChunk(r)
  \/ \E e \in Embeddings : EmbedChunkReturns(r, e)
  \/ EmbedChunkFails(r)
  \/ DelayElapsed(r)
  \/ NextBatch(r)
  \/ InsertReturns(r)
  \/ InsertFails(r)

\* One run of the script, on a store an earlier run may have filled.
InitIngest ==
  /\ store \in {SampleStore(0), SampleStore(MaxRows)}
  /\ nextId = Len(store) + 1
  /\ files \in FileSystems
  /\ pure = NoApplication
  /\ IngestIdle
  /\ QueryIdle
  /\ client = ClientIdle

NextIngest == IngestStep(1)

SpecIngest == InitIngest /\ [][NextIngest]_vars

\* performRAG called by any caller, with any arguments.
NextRAG ==
  \/ \E q \in Queries, k \in TopKs \cup {DefaultTopK}, t \in Thresholds :
       DirectCall(q, k, t)
  \/ \E e \in Embeddings : EmbeddingReturns(e)
  \/ EmbeddingFails
  \/ /\ pc = "searching"
     /\ \E data \in match_documents(store, queryEmbedding, ragArgs.topK,
                                    ragArgs.similarityThreshold) : SearchReturns(data)
  \/ SearchFails

SpecRAG == Init /\ [][NextRAG]_vars

\* An upstream service that never answers.  generateEmbedding(text) and
\* searchSimilarDocuments(embedding, matchCount, similarityThreshold) take no
\* timeout and no abort signal, and performRAG arms no timer around its two
\* awaits: the promise stays unsettled and performRAG stays suspended at it.
UpstreamSilent ==
  /\ pc \in {"embedding", "searching"}
  /\ pc' = "unanswered"
  /\ UNCHANGED <<store, nextId, files, pure, client, ing, entry, request, ragArgs, queryEmbedding,
                 documents, rerankedDocs, ragOutcome, ragResult, calls, response, events,
                 produced>>

\* performRAG with upstream services that answer, fail, or stay silent.  Every
\* answer that an upstream service gives is delivered and the continuation
\* after the await runs (the event loop is fair); a silent call is the
\* UpstreamSilent step.
SpecUnansweredCalls ==
  /\ Init
  /\ [][NextRAG \/ UpstreamSilent]_vars
  /\ WF_vars((\E e \in Embeddings : EmbeddingReturns(e)) \/ EmbeddingFails)
  /\ WF_vars(SearchFails
             \/ /\ pc = "searching"
                /\ \E data \in match_documents(store, queryEmbedding, ragArgs.topK,
                                               ragArgs.similarityThreshold) :
                     SearchReturns(data))

\* The query endpoint.
Next ==
  \/ \E body \in RequestBodies : PostRequest(body)
  \/ \E e \in Embeddings : EmbeddingReturns(e)
  \/ EmbeddingFails
  \/ /\ pc = "searching"
     /\ \E data \in match_documents(store, queryEmbedding, ragArgs.topK,
                                    ragArgs.similarityThreshold) : SearchReturns(data)
  \/ SearchFails
  \/ GenerationReturns
  \/ GenerationFails
  \/ \E f \in Fragments : StreamFragment(f)
  \/ StreamEnds
  \/ StreamFails

MaxEndpointRows == 2

\* The endpoint is started on a store of few rows: every set of rows that
\* pass the filter is a possible answer of the search, and each answer is
\* followed through the whole response.
InitEndpoint ==
  /\ store \in {SampleStore(n) : n \in 0..MaxEndpointRows}
  /\ nextId = Len(store) + 1
  /\ files = <<MissingFile, MissingFile>>
  /\ pure = NoApplication
  /\ IngestIdle
  /\ QueryIdle
  /\ client = ClientIdle

Spec == InitEndpoint /\ [][Next]_vars

\* The endpoint on a store with as many candidates for the query as
\* performRAG surfaces at most: one request, the query embedding of direction 2.
InitFullStore ==
  /\ store = SampleStore(FinalTopN)
  /\ nextId = Len(store) + 1
  /\ files = <<MissingFile, MissingFile>>
  /\ pure = NoApplication
  /\ IngestIdle
  /\ QueryIdle
  /\ client = ClientIdle

SpecFullStore ==
  /\ InitFullStore
  /\ [][\/ PostRequest([json |-> TRUE, hasMessage |-> TRUE,
                        message |-> "warranty coverage", hasHistory |-> FALSE,
                        conversationHistory |-> <<>>])
        \/ EmbeddingReturns(2)
        \/ EmbeddingFails
        \/ /\ pc = "searching"
           /\ \E data \in match_documents(store, queryEmbedding, ragArgs.topK,
                                          ragArgs.similarityThreshold) :
                SearchReturns(data)
        \/ SearchFails
        \/ GenerationReturns
        \/ GenerationFails
        \/ \E f \in Fragments : StreamFragment(f)
        \/ StreamEnds
        \/ StreamFails]_vars

(***************************************************************************)
(* components/ChatInterface.tsx: the chat client of the endpoint.          *)
(***************************************************************************)
\* QuoteJSONString of JSON.stringify: the characters U+0001 to U+001F, each
\* with the text written for it (a short form for BS, TAB, LF, FF and CR,
\* \uXXXX with lower-case digits for the others).  U+0000, written \u0000,
\* occurs in no text of the model.
ControlEscapes ==
  LET pairs ==
      ("" :> "\\u0001") @@ ("" :> "\\u0002") @@ ("" :> "\\u0003") @@ ("" :> "\\u0004") @@
      ("" :> "\\u0005") @@ ("" :> "\\u0006") @@ ("" :> "\\u0007") @@ ("" :> "\\b") @@
      ("\t" :> "\\t") @@ ("\n" :> "\\n") @@ ("" :> "\\u000b") @@ ("\f" :> "\\f") @@
      ("\r" :> "\\r") @@ ("" :> "\\u000e") @@ ("" :> "\\u000f") @@ ("" :> "\\u0010") @@
      ("" :> "\\u0011") @@ ("" :> "\\u0012") @@ ("" :> "\\u0013") @@ ("" :> "\\u0014") @@
      ("" :> "\\u0015") @@ ("" :> "\\u0016") @@ ("" :> "\\u0017") @@ ("" :> "\\u0018") @@
      ("" :> "\\u0019") @@ ("" :> "\\u001a") @@ ("" :> "\\u001b") @@ ("" :> "\\u001c") @@
      ("" :> "\\u001d") @@ ("" :> "\\u001e") @@ ("" :> "\\u001f")
  IN [c \in DOMAIN pairs |-> pairs[c]]

JSONString(s) ==
  LET Escaped(c) ==
        IF c = "\"" THEN "\\\""
        ELSE IF c = "\\" THEN "\\\\"
        ELSE IF c \in DOMAIN ControlEscapes THEN ControlEscapes[c]
        ELSE c
  IN "\"" \o Join([i \in 1..Len(s) |-> Escaped(CharAt(s, i))], "") \o "\""

\* What POST writes after "data: ": JSON.stringify({ type: 'sources', sources }),
\* JSON.stringify({ type: 'content', content }), or [DONE].  A Source is
\* written with its keys in the order buildContext sets them; a similarity
\* with the shortest decimal that reads back as the same double.
EventJSON(e) ==
  LET JSONNumber(x) == DoubleToString(x)
      JSONSource(src) ==
        "{\"document\":" \o JSONString(src.document)
          \o ",\"page\":" \o NumToString(src.page)
          \o ",\"content\":" \o JSONString(src.content)
          \o ",\"similarity\":" \o JSONNumber(src.similarity) \o "}"
  IN CASE e.type = "sources" ->
            "{\"type\":\"sources\",\"sources\":["
              \o Join([i \in 1..Len(e.sources) |-> JSONSource(e.sources[i])], ",")
              \o "]}"
       [] e.type = "content" ->
            "{\"type\":\"content\",\"content\":" \o JSONString(e.content) \o "}"
       [] OTHER -> "[DONE]"

\* The response body: every enqueued event as `data: ${...}\n\n`, in order.
ResponseBody(evs) ==
  Join([i \in 1..Len(evs) |-> "data: " \o EventJSON(evs[i]) \o "\n\n"], "")

ApologyText == "Sorry, I encountered an error. Please try again."

MaxTime == 2

\* Date.now() gives one of the values 1..MaxTime, in milliseconds.  It reads
\* the system's wall clock: two readings of one sendUserMessage call can give
\* the same value, and a later reading a smaller one when the clock is set
\* back.  An id is Date.now().toString().
\* The finally block of sendUserMessage and the end of the call: isLoading is
\* false again, and the locals of the call (assistantMessage, sources,
\* assistantMessageId, the reader and its position) are no more.
Finally(c) ==
  [c EXCEPT !.isLoading = FALSE,
            !.pc = "idle",
            !.assistantMessage = "",
            !.sources = <<>>,
            !.assistantMessageId = "",
            !.pos = 0]

\* The catch block followed by the finally block of sendUserMessage, Date.now()
\* reading t.
CaughtAndFinally(c, t) ==
  Finally([c EXCEPT !.messages = Append(@, [id |-> NumToString(t), role |-> "assistant",
                                            content |-> ApologyText, sources |-> <<>>])])

\* The body of for (const line of lines).  JSON.parse(data) yields the event
\* whose JSON text data is; the text of a line that is a piece of an event
\* (cut by the end of a read) is not a JSON text, JSON.parse throws and the
\* inner catch drops the line.  The setMessages updater sets the content and
\* the sources of every message with id assistantMessageId (the user message
\* too, when it was given the same id), or appends the assistant message when
\* no message has that id.
ProcessLine(c, line, evs) ==
  IF ~StartsWith(line, "data: ") THEN c
  ELSE LET data   == SubSeq(line, 7, Len(line))
           parsed == {i \in 1..Len(evs) :
                        evs[i].type # "[DONE]" /\ EventJSON(evs[i]) = data}
       IN IF data = "[DONE]" \/ parsed = {} THEN c
          ELSE LET e == evs[CHOOSE i \in parsed : TRUE]
               IN IF e.type = "sources"
                  THEN [c EXCEPT !.sources = e.sources]
                  ELSE LET text == c.assistantMessage \o e.content
                           held == [id |-> c.assistantMessageId, role |-> "assistant",
                                    content |-> text, sources |-> c.sources]
                           prev == c.messages
                       IN [c EXCEPT
                             !.assistantMessage = text,
                             !.messages =
                               IF \E k \in 1..Len(prev) : prev[k].id = c.assistantMessageId
                               THEN [k \in 1..Len(prev) |->
                                       IF prev[k].id = c.assistantMessageId
                                       THEN [prev[k] EXCEPT !.content = text,
                                                            !.sources = c.sources]
                                       ELSE prev[k]]
                               ELSE Append(prev, held)]

\* for (const line of chunk.split('\n')), from line k on.
RECURSIVE ProcessLines(_, _, _, _)
ProcessLines(c, lines, k, evs) ==
  IF k > Len(lines) THEN c
  ELSE ProcessLines(ProcessLine(c, lines[k], evs), lines, k + 1, evs)

MaxSends == 1

ReadUnit == 25

\* sendUserMessage without the isLoading test of its first line.
sendUserMessageWhileLoading(content) ==
  /\ Cardinality({k \in 1..Len(client.messages) : client.messages[k].role = "user"})
       < MaxSends + 1
  /\ IF Trim(content) = ""
     THEN UNCHANGED client
     ELSE \E t \in 1..MaxTime :
            client' = [client EXCEPT
              !.messages = Append(@, [id |-> NumToString(t), role |-> "user",
                                      content |-> Trim(content), sources |-> <<>>]),
              !.isLoading = TRUE,
              !.body = [message |-> Trim(content),
                        conversationHistory |-> LastN(client.messages, 6)],
              !.pc = "fetching"]
  /\ UNCHANGED <<store, nextId, files, pure, ing, queryVars>>

\* sendUserMessage(content) up to its await fetch: nothing happens for a blank
\* content or while isLoading; otherwise the user message is added, isLoading
\* is set and the request is sent with the last six messages as history.
\* (handleSubmit, handleSuggestionClick and handleKeyDown all end here; React
\* renders between two events, so the isLoading read is the current one.)
sendUserMessage(content) ==
  /\ \/ client.isLoading
     \/ Cardinality({k \in 1..Len(client.messages) : client.messages[k].role = "user"})
          < MaxSends
  /\ IF Trim(content) = "" \/ client.isLoading
     THEN UNCHANGED client
     ELSE \E t \in 1..MaxTime :
            client' = [client EXCEPT
              !.messages = Append(@, [id |-> NumToString(t), role |-> "user",
                                      content |-> Trim(content), sources |-> <<>>]),
              !.isLoading = TRUE,
              !.body = [message |-> Trim(content),
                        conversationHistory |-> LastN(client.messages, 6)],
              !.pc = "fetching"]
  /\ UNCHANGED <<store, nextId, files, pure, ing, queryVars>>

\* What req.json() yields for the body the client sent.
RequestOf(body) ==
  [json |-> TRUE, hasMessage |-> TRUE, message |-> body.message, hasHistory |-> TRUE,
   conversationHistory |->
     [k \in 1..Len(body.conversationHistory) |->
        Turn(body.conversationHistory[k].role, body.conversationHistory[k].content)]]

\* await fetch resolves with the endpoint's response to the request sent: a
\* status other than 200 throws ('Failed to get response'); otherwise the
\* reader is taken and the locals of the read loop are set up.
FetchResolves ==
  /\ client.pc = "fetching"
  /\ request = RequestOf(client.body)
  /\ response # NoResponse
  /\ \E t \in 1..MaxTime :
       client' = IF response.status # 200
                 THEN CaughtAndFinally(client, t)
                 ELSE [client EXCEPT !.pc = "reading", !.assistantMessage = "",
                                     !.sources = <<>>,
                                     !.assistantMessageId = NumToString(t), !.pos = 0]
  /\ UNCHANGED <<store, nextId, files, pure, ing, queryVars>>

\* The awaited promise rejects: fetch (the network fails) or reader.read()
\* (the connection drops, or the endpoint called controller.error).
AwaitRejects ==
  /\ client.pc \in {"fetching", "reading"}
  /\ \E t \in 1..MaxTime : client' = CaughtAndFinally(client, t)
  /\ UNCHANGED <<store, nextId, files, pure, ing, queryVars>>

\* One turn of while (true) with done false: reader.read() yields the next
\* characters of the response body, as many as the transport delivers in
\* this read (a packet of ReadUnit characters, or all that is written so far);
\* decoder.decode, split('\n') and the loop over the lines.
ReadChunk ==
  /\ client.pc = "reading"
  /\ \E written \in {ResponseBody(events)} :
       \E n \in {ReadUnit, Len(written) - client.pos} :
         /\ n >= 1
         /\ client.pos + n <= Len(written)
         /\ client' =
              [ProcessLines(client,
                            SplitChar(SubSeq(written, client.pos + 1, client.pos + n),
                                      "\n"),
                            1, events)
                 EXCEPT !.pos = @ + n]
  /\ UNCHANGED <<store, nextId, files, pure, ing, queryVars>>

\* reader.read() yields done: the endpoint closed the stream and everything
\* written has been read.  break, then the finally block.
ReadDone ==
  /\ client.pc = "reading"
  /\ pc = "closed"
  /\ client.pos = Len(ResponseBody(events))
  /\ client' = Finally(client)
  /\ UNCHANGED <<store, nextId, files, pure, ing, queryVars>>

\* The client and the endpoint: the request the client sent is the one POST
\* handles.  The store holds one row and the query embedding is the direction
\* of that row: the sources event carries one Source when the search finds
\* the row and none when it does not.  The endpoint serves one request, that
\* of the first message of the session (a later fetch finds the network
\* down), and is followed while the client waits for the response or reads
\* from it.  The completion streams the fragments "Hel", "lo", "Hel", ... (a
\* fragment of no content is written to no event and is left out here).
AnswerFragment(k) == IF k % 2 = 1 THEN "Hel" ELSE "lo"

\* The client waits for the response to the request the endpoint handles, or
\* reads from it.
ClientWaits ==
  /\ client.pc # "idle"
  /\ request = RequestOf(client.body)

InitClient ==
  /\ store = SampleStore(1)
  /\ nextId = Len(store) + 1
  /\ files = <<MissingFile, MissingFile>>
  /\ pure = NoApplication
  /\ IngestIdle
  /\ QueryIdle
  /\ client = ClientIdle

SpecClient ==
  /\ InitClient
  /\ [][\/ \E content \in {"warranty coverage", "  "} : sendUserMessage(content)
        \/ /\ client.pc = "fetching"
           /\ Len(client.messages) = 1
           /\ PostRequest(RequestOf(client.body))
        \/ (ClientWaits /\ EmbeddingReturns(0))
        \/ (ClientWaits /\ EmbeddingFails)
        \/ /\ ClientWaits
           /\ pc = "searching"
           /\ \E data \in match_documents(store, queryEmbedding, ragArgs.topK,
                                          ragArgs.similarityThreshold) :
                SearchReturns(data)
        \/ (ClientWaits /\ SearchFails)
        \/ (ClientWaits /\ GenerationReturns)
        \/ (ClientWaits /\ GenerationFails)
        \/ (ClientWaits /\ StreamFragment(AnswerFragment(Len(produced) + 1)))
        \/ (ClientWaits /\ StreamEnds)
        \/ (ClientWaits /\ StreamFails)
        \/ FetchResolves
        \/ AwaitRejects
        \/ ReadChunk
        \/ ReadDone]_vars

(***************************************************************************)
(* The caller cancels the response stream.  The ReadableStream of POST is  *)
(* built with a start() method only: there is no cancel() method and no    *)
(* AbortSignal is handed to generateChatCompletion.  Cancelling closes the *)
(* stream and leaves the for await loop of start() suspended where it was. *)
(***************************************************************************)
CancelStream ==
  /\ pc = "streaming"
  /\ pc' = "cancelled"
  /\ UNCHANGED <<store, nextId, files, pure, client, ing, entry, request, ragArgs, queryEmbedding,
                 documents, rerankedDocs, ragOutcome, ragResult, calls, response, events,
                 produced>>

\* What start() does on a cancelled stream.  controller.enqueue throws a
\* TypeError on a stream that is no longer readable; the catch calls
\* controller.error, which does nothing on such a stream, and start() is over.
\*  - a turn of the loop takes the next chunk of the completion; an empty
\*    content is skipped and the loop goes on, a non-empty one reaches
\*    controller.enqueue;
\*  - the completion is exhausted (the enqueue of the done marker throws) or
\*    throws while iterated.
LoopAfterCancel ==
  /\ pc = "cancelled"
  /\ \/ /\ Len(produced) < MaxFragments
        /\ \E content \in Fragments :
             /\ produced' = Append(produced, content)
             /\ pc' = IF content # "" THEN "stopped" ELSE "cancelled"
     \/ /\ pc' = "stopped"
        /\ UNCHANGED produced
  /\ UNCHANGED <<store, nextId, files, pure, client, ing, entry, request, ragArgs, queryEmbedding,
                 documents, rerankedDocs, ragOutcome, ragResult, calls, response, events>>

SpecCancel == InitEndpoint /\ [][Next \/ CancelStream \/ LoopAfterCancel]_vars

(***************************************************************************)
(* The insert phase of a run that accumulated up to MaxChunks chunks       *)
(* (SpecInsert).                                                           *)
(***************************************************************************)
MaxChunks == 120

\* allChunks when the document loop has ended with n chunks embedded, ten
\* chunks a page; the first chunk of each batch is the one close to a query
\* embedding of direction 0.
AccumulatedChunks(n) ==
  [k \in 1..n |->
     [content |-> "Chunk " \o NumToString(k) \o " of the guide.",
      embedding |-> IF k % BatchSize = 1 THEN 0 ELSE MaxDir,
      metadata |-> Meta(TroubleshootingGuide, ((k - 1) \div 10) + 1, Undefined,
                        (k - 1) % 10)]]

\* The run at the head of the insert loop (l.324): the store cleared, both
\* documents processed, the chunks accumulated in allChunks.
InitInsert ==
  /\ store = <<>>
  /\ nextId \in {1, MaxRows + 1}
  /\ files = <<PdfFile(GuidePdf), MissingFile>>
  /\ pure = NoApplication
  /\ QueryIdle
  /\ client = ClientIdle
  /\ \E n \in 0..MaxChunks :
       ing = [r \in Runs |->
                IF r = 1
                THEN [IdleRun EXCEPT !.pc = "nextBatch",
                                     !.doc = Len(IngestDocuments) + 1,
                                     !.allChunks = AccumulatedChunks(n)]
                ELSE IdleRun]

SpecInsert ==
  InitInsert /\ [][NextBatch(1) \/ InsertReturns(1) \/ InsertFails(1)]_vars

(***************************************************************************)
(* Two runs of the script started against the same store (SpecTwoRuns).    *)
(***************************************************************************)
InitTwoRuns ==
  /\ store \in {SampleStore(0), SampleStore(2)}
  /\ nextId = Len(store) + 1
  /\ files \in {<<MissingFile, PdfFile(NotePdf)>>, <<CorruptFile, PdfFile(NotePdf)>>}
  /\ pure = NoApplication
  /\ IngestIdle
  /\ QueryIdle
  /\ client = ClientIdle

\* The steps of the two processes interleave at their awaits; nothing in the
\* script or in the store functions orders them.
SpecTwoRuns == InitTwoRuns /\ [][\E r \in Runs : IngestStep(r)]_vars

(***************************************************************************)
(* performRAG called while a run inserts its batches                       *)
(* (SpecQueryDuringInsert).                                                *)
(***************************************************************************)
\* The run at the head of the insert loop with no chunk, with one chunk, with
\* one whole batch, with one chunk more than a batch, or with MaxChunks chunks.
InitQueryDuringInsert ==
  /\ store = <<>>
  /\ nextId \in {1, MaxRows + 1}
  /\ files = <<PdfFile(GuidePdf), MissingFile>>
  /\ pure = NoApplication
  /\ QueryIdle
  /\ client = ClientIdle
  /\ \E n \in {0, 1, BatchSize, BatchSize + 1, MaxChunks} :
       ing = [r \in Runs |->
                IF r = 1
                THEN [IdleRun EXCEPT !.pc = "nextBatch",
                                     !.doc = Len(IngestDocuments) + 1,
                                     !.allChunks = AccumulatedChunks(n)]
                ELSE IdleRun]

SpecQueryDuringInsert ==
  InitQueryDuringInsert /\
  [][\/ NextBatch(1)
     \/ InsertReturns(1)
     \/ InsertFails(1)
     \/ \E q \in Queries : DirectCall(q, DefaultTopK, DefaultSimilarityThreshold)
     \/ EmbeddingReturns(0)
     \/ EmbeddingFails
     \/ /\ pc = "searching"
        /\ \E data \in match_documents(store, queryEmbedding, ragArgs.topK,
                                       ragArgs.similarityThreshold) : SearchReturns(data)
     \/ SearchFails]_vars

(***************************************************************************)
(* Properties of performRAG (checked under SpecRAG).                       *)
(***************************************************************************)
\* The place of the candidate with this id in what the search returned.
PlaceInDocuments(id) == CHOOSE i \in 1..Len(documents) : documents[i].id = id

RAGReturned == ragOutcome = "returned"

\* a = (b * 0.7) + (c * 0.3), every operation rounded as the numbers of the
\* program are.
IsHybridOf(a, b, c) ==
  a = DoubleAdd(DoubleMul(b, DoubleOf(7, 10)), DoubleMul(c, DoubleOf(3, 10)))

\* C1: the output of rerankResults holds every candidate once, is sorted by
\* non-increasing hybrid score, and two candidates with equal hybrid score
\* stand in the order the search returned them.
C1_RerankSortedStable ==
  (RAGReturned /\ Len(documents) > 0) =>
    /\ Len(rerankedDocs) = Len(documents)
    /\ {rerankedDocs[p].id : p \in 1..Len(rerankedDocs)}
         = {documents[i].id : i \in 1..Len(documents)}
    /\ \A p, q \in 1..Len(rerankedDocs) :
         p < q =>
           /\ ~DoubleLess(rerankedDocs[p].similarity, rerankedDocs[q].similarity)
           /\ rerankedDocs[p].similarity = rerankedDocs[q].similarity
                => PlaceInDocuments(rerankedDocs[p].id)
                     < PlaceInDocuments(rerankedDocs[q].id)

\* Two candidates tie, the search returned the one with the greater id first,
\* and a candidate the search returned after them is ranked before them.
C1_Witness ==
  /\ RAGReturned
  /\ \E p, q, r \in 1..Len(rerankedDocs) :
       /\ r < p /\ p < q
       /\ rerankedDocs[p].similarity = rerankedDocs[q].similarity
       /\ rerankedDocs[p].id > rerankedDocs[q].id
       /\ PlaceInDocuments(rerankedDocs[r].id) > PlaceInDocuments(rerankedDocs[q].id)

\* C2: every re-ranked candidate's similarity is its searched similarity times
\* 7/10 plus its keyword relevance times 3/10, its originalSimilarity is the
\* searched similarity, and every Source carries the hybrid value.
C2_HybridScore ==
  (RAGReturned /\ Len(documents) > 0) =>
    /\ \A p \in 1..Len(rerankedDocs) :
         LET doc == documents[PlaceInDocuments(rerankedDocs[p].id)]
         IN /\ rerankedDocs[p].originalSimilarity = doc.similarity
            /\ rerankedDocs[p].keywordRelevance
                 = calculateKeywordRelevance(ragArgs.query, doc.content)
            /\ IsHybridOf(rerankedDocs[p].similarity, doc.similarity,
                          rerankedDocs[p].keywordRelevance)
    /\ \A i \in 1..Len(ragResult.sources) :
         ragResult.sources[i].similarity = rerankedDocs[i].similarity

\* A Source whose candidate matched half of the query's words: its similarity
\* differs from the searched one.
C2_Witness ==
  /\ RAGReturned
  /\ \E i \in 1..Len(ragResult.sources) :
       /\ rerankedDocs[i].keywordRelevance = DoubleOf(1, 2)
       /\ rerankedDocs[i].originalSimilarity = DoubleOf(87, 100)
       /\ DoubleToString(ragResult.sources[i].similarity) = "0.759"

\* The row of the store a candidate was read from.
RowOf(id) == store[CHOOSE i \in 1..Len(store) : store[i].id = id]

AboveThreshold(similarity) ==
  DoubleLess(ragArgs.similarityThreshold, similarity)

\* C3: every candidate the search returned, and the candidate behind every
\* Source, has a similarity to the query embedding strictly above the
\* threshold performRAG was called with.
C3_AboveThreshold ==
  RAGReturned =>
    /\ \A i \in 1..Len(documents) :
         /\ documents[i].similarity
              = Similarity(RowOf(documents[i].id).embedding, queryEmbedding)
         /\ AboveThreshold(documents[i].similarity)
    /\ \A i \in 1..Len(ragResult.sources) :
         /\ rerankedDocs[i].originalSimilarity
              = Similarity(RowOf(rerankedDocs[i].id).embedding, queryEmbedding)
         /\ AboveThreshold(rerankedDocs[i].originalSimilarity)

\* A row whose similarity equals the threshold was left out, others were kept.
C3_Witness ==
  /\ RAGReturned
  /\ Len(ragResult.sources) > 0
  /\ \E i \in 1..Len(store) :
       /\ Similarity(store[i].embedding, queryEmbedding) = ragArgs.similarityThreshold
       /\ \A j \in 1..Len(documents) : documents[j].id # store[i].id

\* C4: performRAG returns min(5, n) Sources for n candidates, whatever topK
\* was, and they are the first candidates of the re-ranked order.
C4_SourceCount ==
  RAGReturned =>
    /\ Len(ragResult.sources)
         = (IF Len(documents) < 5 THEN Len(documents) ELSE 5)
    /\ \A i \in 1..Len(ragResult.sources) :
         /\ ragResult.sources[i].document = rerankedDocs[i].metadata.document
         /\ ragResult.sources[i].page = rerankedDocs[i].metadata.page
         /\ ragResult.sources[i].content = extractCleanContent(rerankedDocs[i].content)
         /\ ragResult.sources[i].similarity = rerankedDocs[i].similarity

\* More than five candidates were retrieved and five Sources returned.
C4_Witness ==
  /\ RAGReturned
  /\ Len(documents) > 5
  /\ Len(ragResult.sources) = 5
  /\ ragArgs.topK > 5

\* C5: with zero candidates performRAG returns no Source, the empty context
\* and the fallback prompt; with a candidate it returns another prompt.
C5_EmptyResultFallback ==
  RAGReturned =>
    /\ Len(documents) = 0 =>
         /\ ragResult.sources = <<>>
         /\ ragResult.context = ""
         /\ ragResult.systemPrompt = FallbackSystemPrompt
    /\ Len(documents) > 0 =>
         /\ ragResult.systemPrompt # FallbackSystemPrompt
         /\ ragResult.sources # <<>>

\* The store holds rows, none clears the threshold, and performRAG returned.
C5_Witness ==
  /\ RAGReturned
  /\ Len(store) > 0
  /\ PassingRows(store, queryEmbedding, ragArgs.similarityThreshold) = {}
  /\ ragArgs.topK > 0
  /\ documents = <<>>
  /\ ragResult.systemPrompt = FallbackSystemPrompt

(***************************************************************************)
(* Properties of the query endpoint (checked under Spec).                  *)
(***************************************************************************)
IsGenerationCall(call) == call.service = "generation"

EventStreamAnswered == response.status = 200 \/ events # <<>>

\* C6: when the embedding call or the search of a query failed, performRAG
\* returned nothing (no fallback result), no generation call was issued, and
\* the endpoint answered with an error and no event stream.
C6_FailurePropagates ==
  ragOutcome = "threw" =>
    /\ ragResult = EmptyResult
    /\ ragResult.systemPrompt # FallbackSystemPrompt
    /\ SelectSeq(calls, IsGenerationCall) = <<>>
    /\ response.status = 500
    /\ ~EventStreamAnswered
    /\ pc = "responded"

\* The search of a well-formed request failed and the endpoint answered 500.
C6_Witness ==
  /\ ragOutcome = "threw"
  /\ entry = "POST"
  /\ Len(calls) = 2
  /\ calls[2].service = "search"
  /\ response = InternalError

IsContentEvent(event) == event.type = "content"

IsForwarded(fragment) == fragment # ""

ContentsOf(evs) ==
  LET contentEvents == SelectSeq(evs, IsContentEvent)
  IN [i \in 1..Len(contentEvents) |-> contentEvents[i].content]

\* The events of a stream: the sources event with performRAG's Sources, the
\* content events with the fragments produced so far (an empty fragment is
\* not forwarded), and the done marker if withDone.
IsEventSequence(evs, withDone) ==
  LET last == IF withDone THEN Len(evs) - 1 ELSE Len(evs)
  IN /\ Len(evs) >= (IF withDone THEN 2 ELSE 1)
     /\ evs[1] = [type |-> "sources", sources |-> ragResult.sources, content |-> ""]
     /\ \A i \in 2..last : evs[i].type = "content"
     /\ withDone => evs[Len(evs)].type = "[DONE]"
     /\ ContentsOf(evs) = SelectSeq(produced, IsForwarded)

StreamOver == pc \in {"closed", "errored"}

\* C7 as claimed: every stream that is over emitted the sources event, the
\* content events in order and the done marker last.
C7_AsClaimed == StreamOver => IsEventSequence(events, TRUE)

\* C7 as amended: a stream emits the sources event first and then the content
\* events in the order of the fragments; the done marker is emitted, last,
\* exactly when the generation stream was consumed to its end; a stream whose
\* generation failed carries no done marker.
C7_EventOrder ==
  /\ pc = "closed" => IsEventSequence(events, TRUE)
  /\ pc \in {"streaming", "errored"} => IsEventSequence(events, FALSE)
  /\ pc \notin {"streaming", "closed", "errored"} => events = <<>>

\* A stream closed after two fragments: four events.
C7_Witness ==
  /\ pc = "closed"
  /\ produced = <<"Hel", "lo">>
  /\ Len(events) = 4
  /\ Len(events[1].sources) > 1

\* C8: a request without a message field is answered 400 and causes no
\* embedding, search or generation call.
C8_MissingMessageRejected ==
  (entry = "POST" /\ request.json /\ ~request.hasMessage) =>
    /\ response.status = 400
    /\ calls = <<>>
    /\ events = <<>>
    /\ pc = "responded"

\* A request that carries a conversation history and no message.
C8_Witness ==
  /\ entry = "POST"
  /\ request.json
  /\ ~request.hasMessage
  /\ request.hasHistory
  /\ response.status = 400

(***************************************************************************)
(* Properties of one ingestion run (checked under SpecIngest).             *)
(***************************************************************************)
\* What a row stores of a chunk.
StoredChunk(row) ==
  [content |-> row.content, embedding |-> row.embedding, metadata |-> row.metadata]

StoredChunks == [i \in 1..Len(store) |-> StoredChunk(store[i])]

IsEarlierRow(row) == \E i \in 1..MaxRows : row = SampleStore(MaxRows)[i]

\* C9: when an insert of the run is issued the store holds nothing but the
\* rows the run inserted before (the clear has emptied it), and when the run
\* ends without failure the store holds the run's chunks, each once, in
\* order, under distinct ids, and no row from before the run.
C9_ClearThenExactContents ==
  /\ ing[1].pc = "inserting" =>
       /\ StoredChunks = SubSeq(ing[1].allChunks, 1, ing[1].batch)
       /\ \A i \in 1..Len(store) : ~IsEarlierRow(store[i])
  /\ ing[1].pc = "done" =>
       /\ StoredChunks = ing[1].allChunks
       /\ \A i, j \in 1..Len(store) : i # j => store[i].id # store[j].id
       /\ \A i, j \in 1..Len(store) :
            i # j => store[i].metadata # store[j].metadata
       /\ \A i \in 1..Len(store) : ~IsEarlierRow(store[i])

\* A run over both documents ended on a store that held rows before it.
C9_Witness ==
  /\ ing[1].pc = "done"
  /\ Len(store) = 4
  /\ nextId = MaxRows + 5
  /\ store[1].id = MaxRows + 1

\* The chunks of the pages of a document, in order, as the loops build them.
RECURSIVE PageChunks(_, _, _, _)
PageChunks(doc, page, text, k) ==
  LET chunks == chunkTextSemantic(text.text, ChunkSize, ChunkOverlap)
  IN IF k = 0 THEN <<>>
     ELSE Append(PageChunks(doc, page, text, k - 1),
                 [content |-> chunks[k],
                  metadata |-> Meta(IngestDocuments[doc].name, text.page,
                                    text.section, k - 1),
                  enriched |-> enrichChunkWithContext(chunks[k],
                                 IngestDocuments[doc].name, text.page, k - 1,
                                 Len(chunks))])

RECURSIVE DocumentChunks(_, _, _)
DocumentChunks(doc, pages, p) ==
  IF p = 0 THEN <<>>
  ELSE DocumentChunks(doc, pages, p - 1)
         \o PageChunks(doc, p, pages[p],
                       Len(chunkTextSemantic(pages[p].text, ChunkSize, ChunkOverlap)))

\* The chunks of every document, for every content its file can have.
ChunksByContent ==
  [d \in 1..Len(IngestDocuments) |->
     [data \in {fs[d].data : fs \in FileSystems} |->
        LET pages == processPDF(data)
        IN DocumentChunks(d, pages, Len(pages))]]

RECURSIVE CorpusChunks(_)
CorpusChunks(d) ==
  IF d = 0 THEN <<>>
  ELSE CorpusChunks(d - 1)
         \o (IF files[d].exists THEN ChunksByContent[d][files[d].data] ELSE <<>>)

\* The elements of seq whose embedding call was answered.
RECURSIVE Embedded(_, _, _)
Embedded(seq, replies, n) ==
  IF n = 0 THEN <<>>
  ELSE Embedded(seq, replies, n - 1)
         \o (IF replies[n] = "ok" THEN <<seq[n]>> ELSE <<>>)

\* C10: a run that reaches its end has sent every chunk of every document
\* found to the embedding service, whichever calls failed before, and the
\* store then holds exactly the chunks whose call succeeded.
C10_EmbeddingFailureSkipsChunk ==
  ing[1].pc = "done" =>
    LET corpus == CorpusChunks(Len(IngestDocuments))
        kept   == Embedded(corpus, ing[1].outcomes, Len(corpus))
    IN /\ Len(ing[1].outcomes) = Len(corpus)
       /\ ing[1].sent = [k \in 1..Len(corpus) |-> corpus[k].enriched]
       /\ Len(store) = Len(kept)
       /\ \A k \in 1..Len(kept) :
            /\ store[k].content = kept[k].content
            /\ store[k].metadata = kept[k].metadata

\* The call for the first chunk of a page failed, the calls for the second
\* chunk of that page, the next page and the next document succeeded.
C10_Witness ==
  /\ ing[1].pc = "done"
  /\ ing[1].outcomes = <<"error", "ok", "ok", "ok">>
  /\ Len(store) = 3
  /\ store[1].metadata = Meta(IngestDocuments[1].name, 1, "CHARGING", 1)
  /\ store[3].metadata.document = IngestDocuments[2].name

AllFilesMissing == \A d \in 1..Len(files) : ~files[d].exists

\* C11: with every document file missing, a run whose clear returned skips
\* every document: it parses nothing, sends nothing to the embedding service,
\* issues no insert, ends without an exception, and leaves the store empty.
C11_AllFilesMissing ==
  AllFilesMissing =>
    /\ ing[1].pc \in {"idle", "clearing", "nextDoc", "nextBatch", "done", "failed"}
    /\ ing[1].sent = <<>>
    /\ ing[1].outcomes = <<>>
    /\ ing[1].allChunks = <<>>
    /\ ing[1].error \in {"none", "clearAllDocuments"}
    /\ ing[1].pc = "failed" => ing[1].error = "clearAllDocuments"
    /\ ing[1].pc \in {"nextDoc", "nextBatch", "done"} => store = <<>>

\* The run ended on a store that held rows before it; both documents skipped.
C11_Witness ==
  /\ AllFilesMissing
  /\ ing[1].pc = "done"
  /\ ing[1].doc = Len(IngestDocuments) + 1
  /\ nextId = MaxRows + 1
  /\ store = <<>>

IsInjectedHeader(line) == StartsWith(line, "[Source:") \/ StartsWith(line, "[Section:")

HasInjectedHeader(text) ==
  LET lines == SplitChar(text, "\n")
  IN \E i \in 1..Len(lines) : IsInjectedHeader(lines[i])

\* The chunker's outputs for the documents, with a header line or without.
ChunkerOutputs ==
  UNION {UNION {{ChunksByContent[d][data][k].content :
                   k \in 1..Len(ChunksByContent[d][data])} :
                data \in DOMAIN ChunksByContent[d]} :
         d \in 1..Len(IngestDocuments)}

HeaderFreeOutputs == {c \in ChunkerOutputs : ~HasInjectedHeader(c)}

\* C12: every text sent to the embedding service is the enriched text of a
\* chunk (a [Source: ...] header, then the chunk), every DocumentChunk built
\* has the chunker's plain output as content, with no injected header line,
\* and no row of the store holds an enriched text.
C12_PlainStoredEnrichedEmbedded ==
  LET corpus == CorpusChunks(Len(IngestDocuments))
      kept   == Embedded(corpus, ing[1].outcomes, Len(ing[1].outcomes))
  IN /\ \A k \in 1..Len(ing[1].sent) :
          /\ ing[1].sent[k] = corpus[k].enriched
          /\ StartsWith(ing[1].sent[k],
                        "[Source: " \o corpus[k].metadata.document \o ", Page ")
          /\ EndsWith(ing[1].sent[k], "]\n\n" \o corpus[k].content)
     /\ Len(ing[1].allChunks) = Len(kept)
     /\ \A j \in 1..Len(ing[1].allChunks) :
          /\ ing[1].allChunks[j].content = kept[j].content
          /\ ing[1].allChunks[j].content \in HeaderFreeOutputs
     /\ \A i \in 1..Len(store) :
          /\ \A k \in 1..Len(ing[1].sent) : store[i].content # ing[1].sent[k]
          /\ ing[1].pc \in {"nextBatch", "inserting", "done"}
               => store[i].content \in HeaderFreeOutputs

\* A stored chunk whose enriched text carried both header lines.
C12_Witness ==
  /\ ing[1].pc = "done"
  /\ Len(store) = 4
  /\ StartsWith(ing[1].sent[1],
       "[Source: VoltDrive Troubleshooting Guide, Page 1]\n\nCHARGING Step 1")
  /\ StartsWith(store[1].content, "CHARGING Step 1")
  /\ StartsWith(ing[1].sent[3],
       "[Source: VoltDrive Troubleshooting Guide, Page 2]\n[Section: ge the battery at home.]\n\nge the")
  /\ StartsWith(store[3].content, "ge the battery at home.\nStep 13")

ChunkKey(metadata) ==
  <<metadata.document, metadata.page, metadata.chunk_index>>

\* C13: the chunks a run builds, and the rows it has stored when it ends,
\* have a content that is not empty after trimming and a chunk_index that is
\* unique within their document and page, whichever embedding calls failed.
C13_NonEmptyUniqueIndex ==
  /\ \A i, j \in 1..Len(ing[1].allChunks) :
       i # j => ChunkKey(ing[1].allChunks[i].metadata)
                  # ChunkKey(ing[1].allChunks[j].metadata)
  /\ ing[1].pc = "done" =>
       /\ \A i \in 1..Len(store) : Trim(store[i].content) # ""
       /\ \A i, j \in 1..Len(store) :
            i # j => ChunkKey(store[i].metadata) # ChunkKey(store[j].metadata)

\* Two chunks of one page stored after the call for a later chunk failed.
C13_Witness ==
  /\ ing[1].pc = "done"
  /\ ing[1].outcomes = <<"ok", "ok", "error", "ok">>
  /\ Len(store) = 3
  /\ store[1].metadata.page = store[2].metadata.page
  /\ store[1].metadata.document = store[2].metadata.document
  /\ store[1].metadata.chunk_index = 0
  /\ store[2].metadata.chunk_index = 1

(***************************************************************************)
(* The functions applied to an input (SpecPure): chunkTextSemantic.        *)
(***************************************************************************)
MaxSentences == 3

Clause(k) == "step " \o NumToString(k) \o " explains how to charge the battery at home"

\* A text of more than 500 characters: one long sentence, four short ones
\* that fill the first chunk, and two more after it.
ShortTailText ==
  "First " \o Join([k \in 1..8 |-> Clause(k)], ", then ") \o "."
    \o " Plug it in. Plug it in. Plug it in. Plug it in. Go! The end."

\* Six sentences of 170 characters: three of them exceed the chunk size.
LongSentenceText ==
  Join([k \in 1..6 |->
          "Note " \o NumToString(k) \o ": "
            \o Join([j \in 1..3 |-> Clause(j)], ", then ") \o "."], " ")

\* Up to MaxSentences short sentences, a blank or a line break between them.
ShortTexts ==
  {Join(sentences, gap) :
     sentences \in UNION {[1..n -> {"A b.", "C d!", "E?", "F"}] : n \in 0..MaxSentences},
     gap \in {" ", "  \n"}}
  \cup {"   \n "}

\* The short texts with small chunk sizes and the size the ingestion uses,
\* the long texts with the size the ingestion uses.
ChunkInputs ==
  {<<t, c>> : t \in ShortTexts, c \in {5, 8, ChunkSize}}
  \cup {<<t, ChunkSize>> :
          t \in {GuidePdf.text, NotePdf.text, ShortTailText, LongSentenceText}}

ChunkApplications ==
  {[fn |-> "chunkTextSemantic", text |-> in[1], chunkSize |-> in[2],
    applied |-> FALSE, result |-> <<>>] : in \in ChunkInputs}

ApplyChunkTextSemantic ==
  /\ pure.fn = "chunkTextSemantic" /\ ~pure.applied
  /\ pure' = [pure EXCEPT !.applied = TRUE,
                !.result = chunkTextSemantic(pure.text, pure.chunkSize, ChunkOverlap)]
  /\ UNCHANGED <<store, nextId, files, client, ing, queryVars>>

(***************************************************************************)
(* enrichChunkWithContext, then extractCleanContent, applied to a chunk.   *)
(***************************************************************************)
\* What the ingestion passes to enrichChunkWithContext: the chunks the
\* chunker returns, here also on texts with bracketed lines that look like
\* the injected headers.
EnrichChunks ==
  LET bracketTexts ==
        {"[Source: Manual, Page 9]\nPlug the cable in. [Section: Intro]\nUnplug it!",
         "  Charging at home.  \n[Section: Safety]\nKeep the cable dry. ",
         "[Section: Range]\n\n[Source: Old, Page 1]",
         "Go.\n[Source: x]\n"}
      inputs == ChunkInputs \cup {<<t, c>> : t \in bracketTexts, c \in {8, ChunkSize}}
  IN UNION {LET chunks == chunkTextSemantic(in[1], in[2], ChunkOverlap)
            IN {chunks[i] : i \in 1..Len(chunks)} : in \in inputs}

EnrichApplications ==
  [fn : {"enrichChunkWithContext"}, chunk : EnrichChunks,
   documentName : {"VoltDrive Troubleshooting Guide", "Notes [v2]", "[Section: A]"},
   page : {1, 12},
   applied : {FALSE}, result : {""}, cleaned : {FALSE}, clean : {""}]

ApplyEnrichChunkWithContext ==
  /\ pure.fn = "enrichChunkWithContext" /\ ~pure.applied
  /\ pure' = [pure EXCEPT !.applied = TRUE,
                !.result = enrichChunkWithContext(pure.chunk, pure.documentName,
                                                  pure.page, 0, 1)]
  /\ UNCHANGED <<store, nextId, files, client, ing, queryVars>>

ApplyExtractCleanContent ==
  /\ pure.fn = "enrichChunkWithContext" /\ pure.applied /\ ~pure.cleaned
  /\ pure' = [pure EXCEPT !.cleaned = TRUE,
                !.clean = extractCleanContent(pure.result)]
  /\ UNCHANGED <<store, nextId, files, client, ing, queryVars>>

(***************************************************************************)
(* expandQuery applied to a query.                                         *)
(***************************************************************************)
MaxQueryWords == 2

\* Up to MaxQueryWords phrases, with triggers in either case, inside longer
\* words, or with none.
ExpandQueries ==
  {Join(phrases, " ") :
     phrases \in UNION {[1..n -> {"Warranty", "restart", "won't start", "BATTERY",
                                  "charging", "cost", "hello", "prices"}] :
                          n \in 0..MaxQueryWords}}

ApplyExpandQuery ==
  /\ pure.fn = "expandQuery" /\ ~pure.applied
  /\ pure' = [pure EXCEPT !.applied = TRUE, !.result = expandQuery(pure.query)]
  /\ UNCHANGED <<store, nextId, files, client, ing, queryVars>>

(***************************************************************************)
(* calculateKeywordRelevance applied to a query and a content.             *)
(***************************************************************************)
\* The query of the keyword matching test script, and up to MaxQueryWords
\* tokens: words, words with punctuation attached, stop words, short tokens.
KeywordQueries ==
  {"What's covered under warranty?"} \cup
  {Join(tokens, " ") :
     tokens \in UNION {[1..n -> {"warranty", "Warranty?", "covered", "charg",
                                 "under", "the", "ev", "is"}] :
                         n \in 1..MaxQueryWords}}

\* The content of the keyword matching test script, and contents with a
\* query word at the start, at the end, between blanks, next to punctuation
\* and inside a longer word.
KeywordContents ==
  {"Battery & Drive Unit: 8-year/100,000-mile warranty covering manufacturing defects. Covers battery capacity degradation below 70% of original capacity.",
   "The warranty covers defects",
   "Full warranty, 8 years covered.",
   "Warrantyless cars are discovered",
   "Charging is covered under the EV warranty",
   "charg",
   "Range and tyres"}

ApplyCalculateKeywordRelevance ==
  /\ pure.fn = "calculateKeywordRelevance" /\ ~pure.applied
  /\ pure' = [pure EXCEPT !.applied = TRUE,
                !.result = calculateKeywordRelevance(pure.query, pure.content)]
  /\ UNCHANGED <<store, nextId, files, client, ing, queryVars>>

(***************************************************************************)
(* SpecPure: one function applied to one input.                            *)
(***************************************************************************)
InitPure ==
  /\ pure \in ChunkApplications \cup EnrichApplications
               \cup [fn : {"expandQuery"}, query : ExpandQueries,
                     applied : {FALSE}, result : {""}]
               \cup [fn : {"calculateKeywordRelevance"}, query : KeywordQueries,
                     content : KeywordContents,
                     applied : {FALSE}, result : {DoubleOf(0, 1)}]
  /\ store = <<>>
  /\ nextId = 1
  /\ files = <<MissingFile, MissingFile>>
  /\ IngestIdle
  /\ QueryIdle
  /\ client = ClientIdle

NextPure ==
  \/ ApplyChunkTextSemantic
  \/ ApplyEnrichChunkWithContext
  \/ ApplyExtractCleanContent
  \/ ApplyExpandQuery
  \/ ApplyCalculateKeywordRelevance

SpecPure == InitPure /\ [][NextPure]_vars

(***************************************************************************)
(* Claims about chunkTextSemantic.                                         *)
(***************************************************************************)
\* The sentences of the normalized input.
InputSentences ==
  SplitSentences(Trim(DotBlankToNewline(CollapseWhitespace(pure.text))))

\* C14 as claimed: every sentence of the normalized input is part of at least
\* one chunk chunkTextSemantic returns.
C14_NoSentenceDropped ==
  (pure.fn = "chunkTextSemantic" /\ pure.applied) =>
    \A i \in 1..Len(InputSentences) :
      \/ InputSentences[i] = ""
      \/ \E k \in 1..Len(pure.result) : Includes(pure.result[k], InputSentences[i])

LongestSentence ==
  IF Len(InputSentences) = 0 THEN 0
  ELSE LET i == CHOOSE i \in 1..Len(InputSentences) :
                  \A j \in 1..Len(InputSentences) :
                    Len(InputSentences[j]) <= Len(InputSentences[i])
       IN Len(InputSentences[i])

\* C15 as claimed: no chunk before the last one returned is longer than
\* chunkSize plus the length of a sentence of the input (the longest one).
C15_ChunkSizeBound ==
  (pure.fn = "chunkTextSemantic" /\ pure.applied) =>
    \A k \in 1..(Len(pure.result) - 1) :
      Len(pure.result[k]) <= pure.chunkSize + LongestSentence

(***************************************************************************)
(* Claims about the enrichment round trip.                                 *)
(***************************************************************************)
\* C16: for every chunk of the chunker, document name and page,
\* extractCleanContent(enrichChunkWithContext(chunk, document, page)) is the
\* chunk: the injected [Source: ...] and [Section: ...] lines are removed and
\* nothing of the chunk is.
C16_EnrichmentRoundTrip ==
  (pure.fn = "enrichChunkWithContext" /\ pure.cleaned) =>
    /\ pure.clean = pure.chunk
    /\ StartsWith(pure.result, "[Source: " \o pure.documentName \o ", Page "
                                 \o NumToString(pure.page) \o "]\n")
    /\ EndsWith(pure.result, "\n\n" \o pure.chunk)

\* A chunk with bracketed text of its own, enriched with both header lines
\* under a bracketed document name, and recovered.
C16_Witness ==
  /\ pure.fn = "enrichChunkWithContext" /\ pure.cleaned
  /\ pure.documentName = "[Section: A]"
  /\ pure.chunk = "Charging at home.\n[Section: Safety] Keep the cable dry."
  /\ pure.result = "[Source: [Section: A], Page 12]\n[Section: Charging at home.]\n\n"
                     \o pure.chunk
  /\ pure.clean = pure.chunk

(***************************************************************************)
(* Claims about expandQuery.                                               *)
(***************************************************************************)
\* The triggers that are a substring of the query, whatever the case.
MatchingTriggers(query) ==
  {k \in 1..Len(QUERY_EXPANSIONS) :
     Includes(ToLowerCase(query), ToLowerCase(QUERY_EXPANSIONS[k][1]))}

\* The first 5 related terms of a trigger.
FirstRelatedTerms(k) ==
  LET related == SplitChar(QUERY_EXPANSIONS[k][2], " ")
  IN SubSeq(related, 1, Min(5, Len(related)))

\* The places (trigger, position) where a term is among the first 5 related
\* terms of one of the triggers, in dictionary order.
TermPlaces(triggers, term) ==
  UNION {{5 * k + j : j \in {i \in 1..Len(FirstRelatedTerms(k)) :
                               FirstRelatedTerms(k)[i] = term}} :
           k \in triggers}

FirstSeen(triggers, term) ==
  CHOOSE p \in TermPlaces(triggers, term) : \A q \in TermPlaces(triggers, term) : p <= q

CandidateTerms(triggers) ==
  UNION {{FirstRelatedTerms(k)[j] : j \in 1..Len(FirstRelatedTerms(k))} :
           k \in triggers}

\* What follows the query and a space in the result.
AppendedTerms ==
  IF pure.result = pure.query THEN <<>>
  ELSE SplitChar(SubSeq(pure.result, Len(pure.query) + 2, Len(pure.result)), " ")

\* C17: the result is the query itself exactly when no trigger is a
\* case-insensitive substring of it; otherwise it is the query, a space, and
\* at most 8 terms separated by spaces, each among the first 5 related terms
\* of a matching trigger, in first-seen order without repetition, none
\* skipped before the cap of 8.
C17_ExpandQuery ==
  (pure.fn = "expandQuery" /\ pure.applied) =>
    \A triggers \in {MatchingTriggers(pure.query)} :
    \A terms \in {AppendedTerms} :
    \A seen \in {[t \in CandidateTerms(triggers) |-> FirstSeen(triggers, t)]} :
      /\ (pure.result = pure.query) <=> (triggers = {})
      /\ triggers # {} =>
           /\ StartsWith(pure.result, pure.query \o " ")
           /\ Len(terms) = Min(8, Cardinality(DOMAIN seen))
           /\ \A i \in 1..Len(terms) : terms[i] \in DOMAIN seen
           /\ \A i, j \in 1..Len(terms) : i < j => seen[terms[i]] < seen[terms[j]]
           /\ \A t \in DOMAIN seen :
                (\A i \in 1..Len(terms) : terms[i] # t) =>
                  \A i \in 1..Len(terms) : seen[terms[i]] < seen[t]

\* Three triggers match, in upper case and inside a phrase: 15 terms pushed,
\* 13 distinct, the first 8 kept.
C17_Witness ==
  /\ pure.fn = "expandQuery" /\ pure.applied
  /\ pure.query = "won't start BATTERY"
  /\ Cardinality(CandidateTerms(MatchingTriggers(pure.query))) = 13
  /\ pure.result = "won't start BATTERY start ignition power on boot not starting no"

(***************************************************************************)
(* Claims about calculateKeywordRelevance.                                 *)
(***************************************************************************)
IsWordChar(c) == IsLower(c) \/ IsUpper(c) \/ IsDigit(c) \/ c = "_"

\* The word occurs in the text with a word boundary on both sides.
OccursAsWholeWord(text, word) ==
  \E i \in 1..(Len(text) - Len(word) + 1) :
    /\ SubSeq(text, i, i + Len(word) - 1) = word
    /\ ~IsWordChar(CharAt(text, i - 1))
    /\ ~IsWordChar(CharAt(text, i + Len(word)))

\* Twice the score the claim gives a token: 1, 0.5 or 0.
ClaimedHalves(text, word) ==
  IF OccursAsWholeWord(text, word) THEN 2
  ELSE IF Includes(text, word) THEN 1
  ELSE 0

RECURSIVE SumClaimedHalves(_, _, _)
SumClaimedHalves(text, words, n) ==
  IF n = 0 THEN 0
  ELSE SumClaimedHalves(text, words, n - 1) + ClaimedHalves(text, words[n])

KeywordApplied == pure.fn = "calculateKeywordRelevance" /\ pure.applied

\* C18 as claimed: with at least one meaningful token, the relevance is the
\* sum over the meaningful tokens of 1 for a whole-word occurrence in the
\* content (a word boundary on both sides), 0.5 for an occurrence only inside
\* a longer word and 0 for none, divided by the number of meaningful tokens.
C18_WordBoundaryScore ==
  KeywordApplied =>
    \A words \in {queryWordsOf(pure.query)} :
      Len(words) > 0 =>
        pure.result
          = DoubleDivInt(DoubleOf(SumClaimedHalves(ToLowerCase(pure.content), words,
                                                   Len(words)), 2),
                         Len(words))

\* No token of the query is longer than 2 characters and outside the stop words.
NoMeaningfulToken(query) ==
  \A tokens \in {SplitWhitespace(ToLowerCase(query))} :
    \A i \in 1..Len(tokens) : Len(tokens[i]) <= 2 \/ tokens[i] \in stopWords

\* C19: for a non-empty query and a non-empty content the relevance is a
\* number from 0 to 1, and it is 0 when the query has no token longer than 2
\* characters outside the stop words.
C19_RelevanceBounds ==
  (KeywordApplied /\ pure.query # "" /\ pure.content # "") =>
    /\ ~DoubleLess(pure.result, DoubleOf(0, 1))
    /\ ~DoubleLess(DoubleOf(1, 1), pure.result)
    /\ NoMeaningfulToken(pure.query) => pure.result = DoubleOf(0, 1)

\* A query of a stop word and a short token, both present in the content,
\* scored 0.
C19_Witness ==
  /\ KeywordApplied
  /\ pure.query = "the ev"
  /\ pure.content = "Charging is covered under the EV warranty"
  /\ queryWordsOf(pure.query) = <<>>
  /\ pure.result = DoubleOf(0, 1)

\* C20 as claimed: for the query "What's covered under warranty?" and a
\* content containing "warranty covering manufacturing defects", the
\* meaningful tokens are covered and warranty, and the relevance is not zero:
\* it is between 0.5 and 1.
C20_PunctuatedQueryMatches ==
  (/\ KeywordApplied
   /\ pure.query = "What's covered under warranty?"
   /\ Includes(pure.content, "warranty covering manufacturing defects")) =>
    /\ queryWordsOf(pure.query) = <<"covered", "warranty">>
    /\ ~DoubleLess(pure.result, DoubleOf(1, 2))
    /\ ~DoubleLess(DoubleOf(1, 1), pure.result)

(***************************************************************************)
(* Claims about the candidates requested and the Sources surfaced.         *)
(***************************************************************************)
\* C21 as claimed: when the performRAG call of the query endpoint has
\* returned, the number of candidates it requested from the vector store
\* (match_count = topK) is strictly larger than the number of Sources it
\* surfaced.
C21_MoreCandidatesThanSources ==
  (entry = "POST" /\ ragOutcome = "returned") =>
    /\ \E k \in 1..Len(calls) :
         /\ calls[k].service = "search"
         /\ calls[k].match_count = ragArgs.topK
    /\ Len(ragResult.sources) < ragArgs.topK

(***************************************************************************)
(* Claims about the insert phase (checked under SpecInsert).               *)
(***************************************************************************)
SameChunk(row, chunk) ==
  /\ row.content = chunk.content
  /\ row.embedding = chunk.embedding
  /\ row.metadata = chunk.metadata

\* C22: the store holds the accumulated chunks of the batches inserted so
\* far, whole batches of 50 (the last one shorter), in the order of
\* allChunks; a run stopped by a failed insert of batch k has an error, keeps
\* the batches before k in the store and has inserted nothing of batch k or
\* of a later batch.
C22_BatchesInOrderNoRollback ==
  ing[1].pc \in {"nextBatch", "inserting", "done", "failed"} =>
    /\ ing[1].batch % 50 = 0
    /\ Len(store) = Min(ing[1].batch, Len(ing[1].allChunks))
    /\ \A i \in 1..Len(store) :
         /\ SameChunk(store[i], ing[1].allChunks[i])
         /\ i > 1 => store[i].id = store[i - 1].id + 1
    /\ ing[1].pc = "inserting" => Len(store) < Len(ing[1].allChunks)
    /\ ing[1].pc = "done" => Len(store) = Len(ing[1].allChunks)
    /\ ing[1].pc = "failed" =>
         /\ ing[1].error = "insertDocumentChunks"
         /\ Len(store) = ing[1].batch
         /\ Len(store) < Len(ing[1].allChunks)

\* The insert of the third batch of 120 chunks failed: two batches of 50 stay.
C22_Witness ==
  /\ ing[1].pc = "failed"
  /\ Len(ing[1].allChunks) = 120
  /\ Len(store) = 100
  /\ SameChunk(store[100], ing[1].allChunks[100])

(***************************************************************************)
(* Claims about overlapping runs (checked under SpecTwoRuns).              *)
(***************************************************************************)
\* The rows of the store as the chunks that were inserted.
StoreAsChunks ==
  [i \in 1..Len(store) |->
     [content |-> store[i].content, embedding |-> store[i].embedding,
      metadata |-> store[i].metadata]]

BothRunsDone == \A r \in Runs : ing[r].pc = "done"

\* C23: nothing isolates two overlapping runs.  When both have ended
\* normally the store is one of the merges their clear and insert steps can
\* produce: the chunks of both runs, in either order (each chunk the two runs
\* share stored twice), or the chunks of one run only (those of the other
\* deleted by the later clear); a single run leaves exactly its own chunks.
C23_OverlappingRunsMerge ==
  BothRunsDone =>
    StoreAsChunks \in {ing[1].allChunks \o ing[2].allChunks,
                       ing[2].allChunks \o ing[1].allChunks,
                       ing[1].allChunks, ing[2].allChunks}

\* Both runs ended normally and the chunk of the note is stored twice: two
\* rows with one (document, page, chunk_index).
C23_Witness ==
  /\ BothRunsDone
  /\ Len(ing[1].allChunks) = 1
  /\ Len(ing[2].allChunks) = 1
  /\ Len(store) = 2
  /\ ChunkKey(store[1].metadata) = ChunkKey(store[2].metadata)
  /\ store[1].content = store[2].content
  /\ store[1].id # store[2].id

(***************************************************************************)
(* Claims about a query during a run (checked under SpecQueryDuringInsert).*)
(***************************************************************************)
\* The store when the first m accumulated chunks have been inserted.
CorpusPrefix(m) ==
  InsertedRows(SubSeq(ing[1].allChunks, 1, m), nextId - Len(store))

\* C24: a query made while the run inserts is answered from the batches
\* inserted when its search runs: from no row, from the first whole batches
\* only or from the whole corpus; nothing makes it wait or fail, and it
\* returns normally, with the fallback result when it found no candidate.
C24_QuerySeesBatchPrefix ==
  ragOutcome = "returned" =>
    /\ \E b \in 0..((Len(ing[1].allChunks) + 49) \div 50) :
         documents \in match_documents(
                         CorpusPrefix(Min(50 * b, Len(ing[1].allChunks))),
                         queryEmbedding, ragArgs.topK, ragArgs.similarityThreshold)
    /\ pc = "returned"
    /\ documents = <<>> =>
         ragResult = [context |-> "", sources |-> <<>>,
                      systemPrompt |-> FallbackSystemPrompt]
    /\ documents # <<>> => Len(ragResult.sources) = Len(documents)

\* The query returned one Source while the second of three batches was being
\* inserted; the whole corpus has three candidates for it.
C24_Witness ==
  /\ ragOutcome = "returned"
  /\ pc = "returned"
  /\ ing[1].pc = "inserting"
  /\ ing[1].batch = 50
  /\ Len(ing[1].allChunks) = 120
  /\ Len(documents) = 1
  /\ Len(ragResult.sources) = 1
  /\ Cardinality(PassingRows(store, queryEmbedding, ragArgs.similarityThreshold)) = 1
  /\ Cardinality(PassingRows(CorpusPrefix(120), queryEmbedding,
                             ragArgs.similarityThreshold)) = 3

(***************************************************************************)
(* Claims about the order of the stages of a query (checked under Spec).   *)
(***************************************************************************)
\* The upstream calls of a whole query of the endpoint, in order.
StagedCalls ==
  <<EmbeddingCall(expandQuery(request.message)),
    SearchCall(queryEmbedding, ragArgs.topK, ragArgs.similarityThreshold),
    GenerationCall(BuildMessages(ragResult.systemPrompt, request))>>

\* The number of upstream calls made when the query stands at pc.
CallsMadeAt ==
  CASE pc = "idle" -> 0
    [] pc = "embedding" -> 1
    [] pc = "searching" -> 2
    [] pc \in {"generating", "streaming", "closed", "errored"} -> 3
    [] pc = "responded" -> Len(calls)

\* C25: the upstream calls of a query are, in this order, one embedding call
\* on the expanded query, one search with the embedding returned, and one
\* generation call with the prompt assembled; each is made when the previous
\* stage has ended; when the generation call is made, the re-ranked list has
\* been computed from the query as typed and the Sources assembled from it.
C25_StagesInOrder ==
  entry = "POST" =>
    /\ Len(calls) <= 3
    /\ Len(calls) = CallsMadeAt
    /\ calls = SubSeq(StagedCalls, 1, Len(calls))
    /\ ragOutcome = "returned" => Len(calls) = 3
    /\ (pc = "generating" /\ documents # <<>>) =>
              /\ rerankedDocs = rerankResults(request.message, documents,
                                              DefaultVectorWeight, DefaultKeywordWeight)
              /\ ragResult.sources =
                   buildContext(FirstN(rerankedDocs, Min(5, ragArgs.topK))).sources
    /\ ragOutcome = "none" => rerankedDocs = <<>> /\ ragResult = EmptyResult

\* A query that expansion changes has reached generation: three calls, the
\* embedding on the expanded text, and a re-ranking that the expanded text
\* would have scored differently.
C25_Witness ==
  /\ entry = "POST"
  /\ pc = "generating"
  /\ request.message = "warranty coverage"
  /\ expandQuery(request.message) # request.message
  /\ Len(calls) = 3
  /\ calls[1].input = expandQuery(request.message)
  /\ Len(documents) >= 2
  /\ rerankedDocs # rerankResults(expandQuery(request.message), documents,
                                  DefaultVectorWeight, DefaultKeywordWeight)

\* ---------------------------------------------------------------------------
\* C26  A query whose embedding call or vector-store search is outstanding
\*      always comes to an end, as a returned result or as a failure thrown
\*      to the caller, also when the upstream service never answers: the call
\*      is bounded by a timeout and the query does not stay pending forever.
\*      (Checked under SpecUnansweredCalls.)
\* ---------------------------------------------------------------------------
C26_UnansweredCallEnds ==
  (pc = "unanswered") ~> (ragOutcome \in {"returned", "threw"})

\* ---------------------------------------------------------------------------
\* C27  Once the caller has cancelled the response stream, the endpoint takes
\*      no further chunk from the generation stream, forwards no further
\*      event (no content event, no done marker) and makes no further
\*      upstream call.  (Checked under SpecCancel.)
\* ---------------------------------------------------------------------------
C27_CancelStopsStream ==
  [][(pc \in {"cancelled", "stopped"}) =>
       (produced' = produced /\ events' = events /\ calls' = calls)]_vars

\* ---------------------------------------------------------------------------
\* C28  (checked under SpecIngest, whose runs start on the empty store or on
\*      the MaxRows sample rows, ids 1..MaxRows)
\*      The first insert of a run is issued only after the document loop is
\*      over.  A run whose clear fails, or in which the text extraction of a
\*      document throws, makes no insert at all, also when chunks of an
\*      earlier document are already embedded and waiting in allChunks; after
\*      a failed extraction the store is empty, after a failed clear the store
\*      is the one the run started on.
\* ---------------------------------------------------------------------------
InInsertPhase(r) ==
  \/ ing[r].pc \in {"nextBatch", "inserting", "done"}
  \/ ing[r].error = "insertDocumentChunks"

\* No row has been inserted since the run started: the id sequence has not
\* moved, and the store is empty or still the rows the run started on.
NoInsertYet ==
  /\ nextId \in {1, MaxRows + 1}
  /\ store \in {<<>>, SampleStore(nextId - 1)}

C28_NoInsertBeforeAllEmbedded ==
  /\ ~InInsertPhase(1) => NoInsertYet
  /\ InInsertPhase(1) => ing[1].doc = Len(IngestDocuments) + 1
  /\ (\E d \in 1..Len(files) : files[d].exists /\ ~files[d].readable) =>
       /\ NoInsertYet
       /\ ~InInsertPhase(1)
  /\ ing[1].error = "processPDF" => store = <<>>
  /\ ing[1].error = "clearAllDocuments" => store = SampleStore(nextId - 1)
  /\ ing[1].pc \notin {"idle", "clearing"} /\ ing[1].error # "clearAllDocuments"
       /\ ~InInsertPhase(1) => store = <<>>

\* The second document cannot be read after the chunks of the first one were
\* embedded: the run has failed, the old rows are gone and nothing is inserted.
C28_Witness ==
  /\ ing[1].pc = "failed"
  /\ ing[1].error = "processPDF"
  /\ ing[1].doc = 2
  /\ Len(ing[1].allChunks) > 0
  /\ nextId = MaxRows + 1
  /\ store = <<>>

\* ---------------------------------------------------------------------------
\* C29  (checked under SpecClient)
\*      isLoading is true exactly while a request of the client is in flight.
\*      While it is true no step adds a user message or changes the request
\*      that was sent.  Every request ends with isLoading false: with no
\*      message added when the stream was read to its end, and with exactly
\*      one apology message appended when the response is an error, when the
\*      endpoint errored the stream, or when fetch or a read rejects.
\* ---------------------------------------------------------------------------
UserMessagesOf(c) == SelectSeq(c.messages, LAMBDA m : m.role = "user")

Apologies ==
  {[id |-> NumToString(t), role |-> "assistant", content |-> ApologyText, sources |-> <<>>] :
     t \in 1..MaxTime}

ReadToTheEnd ==
  /\ client.pc = "reading"
  /\ pc = "closed"
  /\ client.pos = Len(ResponseBody(events))

OneRequestAtATime ==
  /\ client.isLoading =>
       /\ Len(UserMessagesOf(client')) = Len(UserMessagesOf(client))
       /\ client'.body = client.body
       /\ Len(calls') >= Len(calls)
  /\ (client.pc # "idle" /\ client'.pc = "idle") =>
       /\ ~client'.isLoading
       /\ \/ client'.messages = client.messages /\ ReadToTheEnd
          \/ \E a \in Apologies : client'.messages = Append(client.messages, a)
       /\ (client.pc = "fetching" \/ pc = "errored") =>
            \E a \in Apologies : client'.messages = Append(client.messages, a)

C29_OneRequestInFlight ==
  /\ [](client.isLoading <=> client.pc # "idle")
  /\ [][OneRequestAtATime]_vars

\* A read failed after the first fragment was shown: the user message, the
\* partial assistant message and one apology, and isLoading is false again.
C29_Witness ==
  /\ client.pc = "idle"
  /\ ~client.isLoading
  /\ pc = "errored"
  /\ Len(client.messages) = 3
  /\ client.messages[1].role = "user"
  /\ client.messages[2].content = "Hel"
  /\ client.messages[3].content = ApologyText

\* ---------------------------------------------------------------------------
\* C30  (checked under SpecClient)
\*      When the client has read a response to its end, the endpoint having
\*      emitted at least one content event, the last message the client holds
\*      is the assistant message whose content is the concatenation, in
\*      order, of the content of all content events, with the sources of the
\*      sources event, whatever the reads were.
\* ---------------------------------------------------------------------------
RECURSIVE ConcatContents(_)
ConcatContents(evs) ==
  IF Len(evs) = 0 THEN ""
  ELSE (IF evs[1].type = "content" THEN evs[1].content ELSE "")
         \o ConcatContents(Tail(evs))

\* The call has returned without passing through its catch block, which adds
\* the apology: its read loop ended on done, the stream closed and read whole.
ResponseRead ==
  /\ client.pc = "idle"
  /\ pc = "closed"
  /\ Len(client.messages) > 0
  /\ client.messages[Len(client.messages)].content # ApologyText

C30_AssistantMessageComplete ==
  (ResponseRead /\ \E k \in 1..Len(events) : events[k].type = "content") =>
     LET held == client.messages[Len(client.messages)]
     IN /\ held.role = "assistant"
        /\ held.content = ConcatContents(events)
        /\ held.sources = events[1].sources

====
